---- MODULE Spec2Model ----
(***************************************************************************)
(* A model of uat-bbox: the FlatGeobuf reader (flatgeobuf_processor), the  *)
(* worker pool (thread_pool), the geometry walk (geometry_processor), the  *)
(* bounding box and the command line driver (run_application).            *)
(*                                                                         *)
(* Strings are sequences of character codes, byte blobs are sequences of   *)
(* bytes (0..255) read little-endian, offsets are 0-based as in the code   *)
(* (blob[o + 1] is the byte at offset o).                                  *)
(***************************************************************************)
EXTENDS Integers, Sequences, FiniteSets, TLC

\* ------------------------------------------------------------------ bounds
MaxWorkers == 2
MaxFeatures == 3
MaxPoolTasks == 3
MaxPoints == 3
MaxCoords == 7

\* ------------------------------------------------------- program constants
min_fgb_file_size_ == 12
magic_size == 8
default_coordinate_stride_ == 2
DblMax == 1000000
\* a 32-bit value is kept as two 16-bit halves [lo, hi]: TLC's integers stop at 2^31 - 1
Half == 65536
\* "4294967295", the largest std::uint32_t
UInt32MaxText == <<52, 50, 57, 52, 57, 54, 55, 50, 57, 53>>
\* "Name_Unavailable_Index_"
uat_name_fallback_prefix_ ==
    <<78, 97, 109, 101, 95, 85, 110, 97, 118, 97, 105, 108, 97, 98, 108, 101,
      95, 73, 110, 100, 101, 120, 95>>
expected_uat_name_column_ == "name"
expected_uat_code_column_ == "natcode"
expected_county_mn_column_ == "countyMn"
\* std::optional<std::size_t> without a value
NoIndex == -1
Space == 32

\* ------------------------------------------------------------ text helpers
RECURSIVE ToDecimal(_)
\* operator<< / std::to_string of an unsigned integer
ToDecimal(n) ==
    IF n < 10 THEN <<48 + n>> ELSE Append(ToDecimal(n \div 10), 48 + (n % 10))

IsSpace(c) == c = Space \/ (c >= 9 /\ c <= 13)
IsDigit(c) == c >= 48 /\ c <= 57

RECURSIVE TrimLeft(_)
TrimLeft(s) ==
    IF s # <<>> /\ IsSpace(Head(s)) THEN TrimLeft(Tail(s)) ELSE s

RECURSIVE TrimRight(_)
TrimRight(s) ==
    IF s # <<>> /\ IsSpace(s[Len(s)]) THEN TrimRight(SubSeq(s, 1, Len(s) - 1)) ELSE s

RECURSIVE DigitPrefixLen(_)
DigitPrefixLen(s) ==
    IF s # <<>> /\ IsDigit(Head(s)) THEN 1 + DigitPrefixLen(Tail(s)) ELSE 0

RECURSIVE StripZeros(_)
\* the decimal text of the number a digit string denotes
StripZeros(d) == IF Len(d) > 1 /\ Head(d) = 48 THEN StripZeros(Tail(d)) ELSE d

RECURSIVE LexLeq(_, _)
\* a <= b for digit strings of equal length
LexLeq(a, b) ==
    IF a = <<>> THEN TRUE
    ELSE IF Head(a) # Head(b) THEN Head(a) < Head(b)
    ELSE LexLeq(Tail(a), Tail(b))

\* a std::uint32_t is carried as the decimal text operator<< prints for it
ZeroText == <<48>>
FitsUInt32(digits) ==
    Len(digits) < Len(UInt32MaxText)
    \/ (Len(digits) = Len(UInt32MaxText) /\ LexLeq(digits, UInt32MaxText))

\* std::from_chars into a std::uint32_t: [ok, consumed, value]
FromCharsU32(s) ==
    LET n == DigitPrefixLen(s)
        v == StripZeros(SubSeq(s, 1, n))
    IN  IF n = 0 THEN [ok |-> FALSE, consumed |-> 0, value |-> ZeroText]
        ELSE IF ~FitsUInt32(v) THEN [ok |-> FALSE, consumed |-> n, value |-> ZeroText]
        ELSE [ok |-> TRUE, consumed |-> n, value |-> v]

\* the uat_code block of submit_feature_tasks: trim, parse, 0 unless the
\* whole trimmed text parsed
ParseUatCode(code_value_str) ==
    LET t == TrimRight(TrimLeft(code_value_str))
        r == FromCharsU32(t)
    IN  IF code_value_str = <<>> \/ t = <<>> THEN ZeroText
        ELSE IF r.ok /\ r.consumed = Len(t) THEN r.value
        ELSE ZeroText

\* county_code(const std::string&): the two stored characters
county_code(s) ==
    IF s = <<>> THEN <<Space, Space>>
    ELSE IF Len(s) >= 2 THEN <<s[1], s[2]>>
    ELSE <<s[1], Space>>

county_is_empty(code) == code[1] = Space /\ code[2] = Space
county_to_string(code) == IF county_is_empty(code) THEN <<>> ELSE code

\* ------------------------------------------------------------ bounding box
InvalidBox ==
    [min_x |-> DblMax, min_y |-> DblMax, max_x |-> 0, max_y |-> 0, is_valid |-> FALSE]

Min2KeepsFirst(a, b) == a
Min2(a, b) == IF b < a THEN b ELSE a
Max2(a, b) == IF a < b THEN b ELSE a

update_keeps_last_max(bb, x, y) ==
    [min_x |-> Min2(bb.min_x, x), min_y |-> Min2(bb.min_y, y),
     max_x |-> x, max_y |-> y, is_valid |-> TRUE]
update(bb, x, y) ==
    [min_x |-> Min2(bb.min_x, x), min_y |-> Min2(bb.min_y, y),
     max_x |-> Max2(bb.max_x, x), max_y |-> Max2(bb.max_y, y), is_valid |-> TRUE]

\* ---------------------------------------------------------------- geometry
\* A FlatGeobuf::Geometry table: xy() and parts() may each be absent (null).
NullGeometry == [null |-> TRUE]
Geom(type, has_xy, xy, has_parts, parts) ==
    [null |-> FALSE, type |-> type, has_xy |-> has_xy, xy |-> xy,
     has_parts |-> has_parts, parts |-> parts]
Ring(xy) == Geom("Unknown", TRUE, xy, FALSE, <<>>)

RECURSIVE CoordLoop(_, _, _, _)
\* the for loop of update_bbox_from_coordinates from index i (0-based)
CoordLoop(bb, xy, stride, i) ==
    IF i + 1 < Len(xy)
    THEN CoordLoop(update(bb, xy[i + 1], xy[i + 2]), xy, stride, i + stride)
    ELSE bb

update_bbox_from_coordinates(bb, geom_fbs, stride) ==
    IF ~geom_fbs.has_xy \/ Len(geom_fbs.xy) = 0 THEN bb
    ELSE CoordLoop(bb, geom_fbs.xy, stride, 0)

RECURSIVE RingLoop(_, _, _, _)
RingLoop(bb, rings, stride, i) ==
    IF i > Len(rings) THEN bb
    ELSE RingLoop(IF rings[i].null THEN bb
                  ELSE update_bbox_from_coordinates(bb, rings[i], stride),
                  rings, stride, i + 1)

process_single_polygon_for_bbox(bbox, polygon_fbs, stride) ==
    IF polygon_fbs.null THEN bbox
    ELSE IF polygon_fbs.has_parts THEN RingLoop(bbox, polygon_fbs.parts, stride, 1)
    ELSE IF polygon_fbs.has_xy /\ Len(polygon_fbs.xy) > 0
         THEN update_bbox_from_coordinates(bbox, polygon_fbs, stride)
    ELSE bbox

RECURSIVE PolygonLoop(_, _, _, _)
PolygonLoop(bb, polys, stride, i) ==
    IF i > Len(polys) THEN bb
    ELSE PolygonLoop(IF polys[i].null THEN bb
                     ELSE process_single_polygon_for_bbox(bb, polys[i], stride),
                     polys, stride, i + 1)

calculate_for_geometry(geometry_fbs_table, stride, actual_geometry_type) ==
    IF geometry_fbs_table.null THEN InvalidBox
    ELSE IF actual_geometry_type = "Polygon"
         THEN process_single_polygon_for_bbox(InvalidBox, geometry_fbs_table, stride)
    ELSE IF actual_geometry_type = "MultiPolygon"
         THEN IF geometry_fbs_table.has_parts
              THEN PolygonLoop(InvalidBox, geometry_fbs_table.parts, stride, 1)
              ELSE InvalidBox
    ELSE IF geometry_fbs_table.has_xy /\ Len(geometry_fbs_table.xy) > 0
         THEN update_bbox_from_coordinates(InvalidBox, geometry_fbs_table, stride)
    ELSE InvalidBox
\* -------------------------------------------------------- property decoding
RECURSIVE ReadScalar(_, _, _)
\* flatbuffers::ReadScalar: w little-endian bytes at 0-based offset o
ReadScalar(blob, o, w) ==
    IF w = 0 THEN 0 ELSE blob[o + 1] + 256 * ReadScalar(blob, o + 1, w - 1)

\* a 4-byte little-endian value as 16-bit halves
Read32(blob, o) == [lo |-> ReadScalar(blob, o, 2), hi |-> ReadScalar(blob, o + 2, 2)]
\* v + k stored in 32 bits, k small
Add32(v, k) ==
    [lo |-> (v.lo + k) % Half, hi |-> (v.hi + ((v.lo + k) \div Half)) % Half]
\* v <= r for a 32-bit v and a size r
Leq32(v, r) == v.hi < r \div Half \/ (v.hi = r \div Half /\ v.lo <= r % Half)
Value32(v) == v.hi * Half + v.lo

RECURSIVE MulAdd(_, _, _)
\* digits (least significant first) * m + carry, as digits
MulAdd(digits, m, carry) ==
    IF digits = <<>>
    THEN IF carry = 0 THEN <<>> ELSE <<carry % 10>> \o MulAdd(<<>>, m, carry \div 10)
    ELSE <<(Head(digits) * m + carry) % 10>>
         \o MulAdd(Tail(digits), m, (Head(digits) * m + carry) \div 10)

RECURSIVE BytesToDigits(_)
\* the decimal digits (least significant first) of little-endian bytes
BytesToDigits(bytes) ==
    IF bytes = <<>> THEN <<>>
    ELSE MulAdd(BytesToDigits(Tail(bytes)), 256, Head(bytes))

Reverse(q) == [i \in 1..Len(q) |-> q[Len(q) + 1 - i]]
UnsignedText(bytes) ==
    LET d == BytesToDigits(bytes)
    IN  IF d = <<>> THEN ZeroText ELSE [i \in 1..Len(d) |-> 48 + Reverse(d)[i]]

RECURSIVE Negate(_, _)
\* the two's complement of little-endian bytes: invert and add carry
Negate(bytes, carry) ==
    IF bytes = <<>> THEN <<>>
    ELSE <<(255 - Head(bytes) + carry) % 256>>
         \o Negate(Tail(bytes), (255 - Head(bytes) + carry) \div 256)

ScalarWidth(col_type) ==
    CASE col_type \in {"Byte", "UByte", "Bool"} -> 1
      [] col_type \in {"Short", "UShort"} -> 2
      [] col_type \in {"Int", "UInt", "Float"} -> 4
      [] col_type \in {"Long", "ULong", "Double"} -> 8
      [] OTHER -> 0

IsSignedType(col_type) == col_type \in {"Byte", "Short", "Int", "Long"}

\* std::to_string of the scalar in these little-endian bytes
ScalarText(bytes, signed) ==
    IF signed /\ bytes[Len(bytes)] >= 128
    THEN <<45>> \o UnsignedText(Negate(bytes, 1))
    ELSE UnsignedText(bytes)

\* read_scalar_as_string_static_helper<T>: [text, bytes_read]
read_scalar_as_string(col_type, blob, o, remaining) ==
    LET w == ScalarWidth(col_type)
    IN  IF w > remaining THEN [text |-> <<>>, bytes_read |-> 0]
        ELSE IF col_type \in {"Float", "Double"}
             \* the fixed 15-digit rendering: a non-empty text fixed by the bytes read
             THEN [text |-> <<46>> \o SubSeq(blob, o + 1, o + w), bytes_read |-> w]
        ELSE [text |-> ScalarText(SubSeq(blob, o + 1, o + w), IsSignedType(col_type)),
              bytes_read |-> w]

\* [text, bytes_read] for the value at value_offset_in_blob
read_and_convert_property_value_at_offset(col_type, blob, value_offset_in_blob, properties_blob_size) ==
    LET remaining == properties_blob_size - value_offset_in_blob
        none == [text |-> <<>>, bytes_read |-> 0]
    IN  IF value_offset_in_blob >= properties_blob_size THEN none
        ELSE IF col_type = "Bool"
             THEN LET r == read_scalar_as_string("UByte", blob, value_offset_in_blob, remaining)
                  IN  IF r.text = <<>> THEN r
                      ELSE IF r.text = <<48>>
                           THEN [text |-> <<102, 97, 108, 115, 101>>, bytes_read |-> r.bytes_read]
                      ELSE [text |-> <<116, 114, 117, 101>>, bytes_read |-> r.bytes_read]
        ELSE IF ScalarWidth(col_type) > 0
             THEN read_scalar_as_string(col_type, blob, value_offset_in_blob, remaining)
        ELSE IF col_type = "String"
             THEN IF 4 > remaining THEN none
                  ELSE LET len == Read32(blob, value_offset_in_blob)
                       IN  \* 4 + len is computed in 64 bits here: no wrap
                           IF ~(remaining >= 4 /\ Leq32(len, remaining - 4)) THEN none
                           ELSE [text |-> SubSeq(blob, value_offset_in_blob + 5,
                                                 value_offset_in_blob + 4 + Value32(len)),
                                 bytes_read |-> 4 + Value32(len)]
        ELSE none

\* the number of bytes to step over for the value at value_offset_in_blob;
\* bytes_to_skip is a 32-bit uoffset_t
skip_property_value_at_offset(col_type, blob, value_offset_in_blob, properties_blob_size) ==
    LET remaining_size == properties_blob_size - value_offset_in_blob
        can_skip(needed) == needed <= remaining_size
    IN  IF value_offset_in_blob >= properties_blob_size THEN 0
        ELSE IF ScalarWidth(col_type) > 0
             THEN IF can_skip(ScalarWidth(col_type)) THEN ScalarWidth(col_type)
                  ELSE remaining_size
        ELSE IF ~can_skip(4) THEN remaining_size
        ELSE LET len == Read32(blob, value_offset_in_blob)
                 bytes_to_skip == Add32(len, 4)
             IN  IF Leq32(bytes_to_skip, remaining_size) THEN Value32(bytes_to_skip)
                 ELSE remaining_size

RECURSIVE PropertyScanNoIndexCheck(_, _, _, _)
PropertyScanNoIndexCheck(blob, columns, target_column_index, current_offset_in_blob) ==
    LET size == Len(blob)
    IN  IF ~(current_offset_in_blob < size) THEN <<>>
        ELSE IF current_offset_in_blob + 2 > size THEN <<>>
        ELSE LET current_fbs_col_idx == ReadScalar(blob, current_offset_in_blob, 2)
                 off == current_offset_in_blob + 2
                 col_type == IF current_fbs_col_idx >= Len(columns) THEN "String"
                             ELSE columns[current_fbs_col_idx + 1].type
             IN  IF current_fbs_col_idx = target_column_index
                 THEN read_and_convert_property_value_at_offset(col_type, blob, off, size).text
                 ELSE LET skip == skip_property_value_at_offset(col_type, blob, off, size)
                      IN  IF skip > size - off THEN <<>>
                          ELSE PropertyScanNoIndexCheck(blob, columns, target_column_index,
                                                        off + skip)

RECURSIVE PropertyScan(_, _, _, _)
\* the while loop of get_string_value_for_property from current_offset_in_blob
PropertyScan(blob, columns, target_column_index, current_offset_in_blob) ==
    LET size == Len(blob)
    IN  IF ~(current_offset_in_blob < size) THEN <<>>
        ELSE IF current_offset_in_blob + 2 > size THEN <<>>
        ELSE LET current_fbs_col_idx == ReadScalar(blob, current_offset_in_blob, 2)
                 off == current_offset_in_blob + 2
             IN  IF current_fbs_col_idx >= Len(columns) THEN <<>>
                 ELSE LET col_type == columns[current_fbs_col_idx + 1].type
                      IN  IF current_fbs_col_idx = target_column_index
                          THEN read_and_convert_property_value_at_offset(
                                   col_type, blob, off, size).text
                          ELSE LET skip == skip_property_value_at_offset(
                                               col_type, blob, off, size)
                               IN  IF skip > size - off THEN <<>>
                                   ELSE PropertyScan(blob, columns, target_column_index,
                                                     off + skip)

get_string_value_for_property(fbs_feature, fbs_header, target_column_index) ==
    IF ~fbs_feature.has_properties \/ target_column_index >= Len(fbs_header.columns)
    THEN <<>>
    ELSE PropertyScan(fbs_feature.properties, fbs_header.columns, target_column_index, 0)

RECURSIVE FindColumn(_, _, _)
FindColumn(columns, property_name_to_find, i) ==
    IF i >= Len(columns) THEN NoIndex
    ELSE IF columns[i + 1].name = property_name_to_find THEN i
    ELSE FindColumn(columns, property_name_to_find, i + 1)

\* the 0-based index of the first column with that name, NoIndex if none
find_property_index_by_name(fbs_header, property_name_to_find) ==
    FindColumn(fbs_header.columns, property_name_to_find, 0)
\* ------------------------------------------------------------- input files
\* Builders of the bytes a FlatGeobuf writer emits; they make inputs, they are
\* not part of the program.
U16(n) == <<n % 256, n \div 256>>
U32(n) == <<n % 256, (n \div 256) % 256, (n \div 65536) % 256, n \div 16777216>>
StringProp(idx, text) == U16(idx) \o U32(Len(text)) \o text
IntProp(idx, n) == U16(idx) \o U32(n)

Col(name, type) == [name |-> name, type |-> type]
Schemas ==
    [full |-> <<Col("name", "String"), Col("natcode", "String"), Col("countyMn", "String")>>,
     no_name |-> <<Col("pop", "Int"), Col("natcode", "String"), Col("countyMn", "String")>>,
     no_code |-> <<Col("name", "String"), Col("pop", "Int"), Col("countyMn", "String")>>,
     no_county |-> <<Col("name", "String"), Col("natcode", "String"), Col("pop", "Int")>>,
     none |-> <<Col("pop", "Int")>>]

\* the value the k-th sample feature has in a column: names "B", "C", ...;
\* codes "20", "30", ... with the second padded by blanks; counties "CJ", "DK", ...
SampleName(k) == <<65 + k>>
SampleCode(k) == IF k = 2 THEN <<Space>> \o ToDecimal(10 * k) \o <<Space>> ELSE ToDecimal(10 * k)
SampleCounty(k) == <<66 + k, 73 + k>>

\* a property pair whose column index is outside every sample schema
CorruptPair == U16(9) \o U32(0)

RECURSIVE EncodeProps(_, _, _, _)
\* the pairs of columns i.. of feature k; corrupt_before = j puts CorruptPair
\* in front of the pair of column j (1-based), 0 puts none
EncodeProps(columns, k, i, corrupt_before) ==
    IF i > Len(columns) THEN <<>>
    ELSE (IF corrupt_before = i THEN CorruptPair ELSE <<>>)
         \o (CASE columns[i].name = "name" -> StringProp(i - 1, SampleName(k))
            [] columns[i].name = "natcode" -> StringProp(i - 1, SampleCode(k))
            [] columns[i].name = "countyMn" -> StringProp(i - 1, SampleCounty(k))
            [] OTHER -> IntProp(i - 1, 1000 * k))
         \o EncodeProps(columns, k, i + 1, corrupt_before)

SampleGeometry(k, header_type) ==
    IF header_type = "MultiPolygon"
    THEN Geom("MultiPolygon", FALSE, <<>>, TRUE,
              <<Geom("Polygon", FALSE, <<>>, TRUE, <<Ring(<<k, k, k + 2, k + 1>>)>>),
                Geom("Polygon", FALSE, <<>>, TRUE, <<Ring(<<k + 5, k + 5, k + 6, k + 7>>)>>)>>)
    ELSE Geom("Polygon", FALSE, <<>>, TRUE, <<Ring(<<k, k, k + 2, k + 1, k + 1, k + 3>>)>>)

SampleFeature(p, k) ==
    LET props == EncodeProps(Schemas[p.schema], k, 1,
                             IF p.corrupt_at = k THEN p.corrupt_before ELSE 0)
    IN  [size |-> 8 + Len(props), has_properties |-> TRUE, properties |-> props,
         \* how the sample was made, not read by the program
         corrupt_before |-> IF p.corrupt_at = k THEN p.corrupt_before ELSE 0,
         geometry |-> IF p.null_geometry_at = k THEN NullGeometry
                      ELSE IF p.empty_geometry_at = k
                      THEN Geom(p.geometry_type, FALSE, <<>>, TRUE, <<>>)
                      ELSE SampleGeometry(k, p.geometry_type)]

RECURSIVE RecordOffset(_, _, _)
\* the offset of feature record k when the records start at offset start
RecordOffset(features, start, k) ==
    IF k = 1 THEN start
    ELSE RecordOffset(features, start, k - 1) + 4 + features[k - 1].size

SampleHeaderSize == 20
SampleIndexBytes == 40

SampleFile(p) ==
    LET features == [k \in 1..p.n |-> SampleFeature(p, k)]
        index_bytes == IF p.index THEN SampleIndexBytes ELSE 0
        start == magic_size + 4 + SampleHeaderSize + index_bytes
        full == RecordOffset(features, start, p.n + 1)
        size == CASE p.damage = "short" -> min_fgb_file_size_ - 1
                  [] p.damage = "header_overrun" -> magic_size + 4 + SampleHeaderSize - 1
                  [] p.damage = "cut_length" -> RecordOffset(features, start, p.cut_at) + 2
                  [] p.damage = "cut_payload" ->
                         RecordOffset(features, start, p.cut_at) + 4 + features[p.cut_at].size - 1
                  [] p.damage = "no_index" -> magic_size + 4 + SampleHeaderSize
                  [] OTHER -> full
    IN  [size |-> size,
         magic_ok |-> p.damage # "bad_magic",
         header_size |-> SampleHeaderSize,
         header |-> [geometry_type |-> p.geometry_type, has_z |-> FALSE, has_m |-> FALSE,
                     features_count |-> p.n, columns |-> Schemas[p.schema],
                     index_node_size |-> IF p.index THEN 16 ELSE 0],
         index_bytes |-> index_bytes,
         features |-> features]

BaseParams ==
    [argv |-> <<"in.fgb", "out.csv">>, fault |-> "none", output_ok |-> TRUE,
     num_threads |-> 1, geometry_type |-> "Polygon", schema |-> "full", n |-> MaxFeatures,
     damage |-> "none", cut_at |-> 0, corrupt_at |-> 0, corrupt_before |-> 1,
     null_geometry_at |-> 0, empty_geometry_at |-> 0, alloc_fail_at |-> 0,
     index |-> FALSE, failing |-> {}]

MakeInput(p) ==
    [argv |-> p.argv, fault |-> p.fault, output_ok |-> p.output_ok,
     num_threads |-> p.num_threads, failing |-> p.failing,
     alloc_fail_at |-> p.alloc_fail_at, file |-> SampleFile(p)]

\* the command lines tried: argv[1..], at most three arguments
ArgVectors ==
    {<<>>, <<"in.fgb">>, <<"in.fgb", "out.csv">>, <<"-t", "2", "in.fgb">>,
     <<"in.fgb", "-t", "2">>, <<"in.fgb", "out.csv", "-t">>, <<"-t", "in.fgb", "out.csv">>,
     <<"in.fgb", "out.csv", "extra.csv">>}

ConcurrencyParams ==
    {[BaseParams EXCEPT !.num_threads = w, !.failing = f, !.geometry_type = g] :
        w \in 1..MaxWorkers, f \in SUBSET (1..MaxFeatures), g \in {"Polygon", "MultiPolygon"}}
    \cup {[BaseParams EXCEPT !.num_threads = w, !.n = n] :
        w \in 1..MaxWorkers, n \in 0..MaxFeatures}
TruncationParams ==
    {[BaseParams EXCEPT !.num_threads = w, !.damage = d, !.cut_at = k, !.failing = f] :
        w \in 1..MaxWorkers, d \in {"cut_length", "cut_payload"}, k \in 1..MaxFeatures,
        f \in {{}, {1}}}
HeaderParams ==
    {[BaseParams EXCEPT !.damage = d] : d \in {"short", "bad_magic", "header_overrun"}}
    \cup {[BaseParams EXCEPT !.index = TRUE, !.damage = d] : d \in {"none", "no_index"}}
    \cup {[BaseParams EXCEPT !.geometry_type = g] : g \in {"Point", "LineString", "Unknown"}}
SchemaParams ==
    {[BaseParams EXCEPT !.schema = s, !.corrupt_at = c, !.null_geometry_at = g] :
        s \in DOMAIN Schemas, c \in 0..MaxFeatures, g \in {0, MaxFeatures}}
    \cup {[BaseParams EXCEPT !.corrupt_at = c, !.corrupt_before = b, !.num_threads = w] :
        c \in 1..MaxFeatures, b \in 1..3, w \in 1..MaxWorkers}
DriverParams ==
    {[BaseParams EXCEPT !.argv = a] : a \in ArgVectors}
    \cup {[BaseParams EXCEPT !.fault = f] : f \in {"open_fail", "foreign"}}
    \cup {[BaseParams EXCEPT !.output_ok = FALSE]}

\* std::bad_alloc inside the enqueue_task call for feature k
AllocationParams ==
    {[BaseParams EXCEPT !.num_threads = w, !.alloc_fail_at = k] :
        w \in 1..MaxWorkers, k \in 1..MaxFeatures}

\* features without a geometry table, or with one that holds no coordinates
GeometryParams ==
    {[BaseParams EXCEPT !.null_geometry_at = a, !.empty_geometry_at = b, !.geometry_type = g] :
        a, b \in 0..MaxFeatures, g \in {"Polygon", "MultiPolygon"}}

Inputs ==
    {MakeInput(p) : p \in GeometryParams \cup ConcurrencyParams \cup TruncationParams \cup HeaderParams
                          \cup SchemaParams \cup DriverParams \cup AllocationParams}
\* ------------------------------------------------------------------- state
VARIABLES
    input,                      \* the command line, the environment and the file
    pc,                         \* where the main thread is
    outcome,                    \* how the try block of run_application ended
    exit_code,                  \* the value run_application returns, -1 while running
    fgb_buffer_,                \* [state, size]
    processing_futures_,        \* the result handles, by task id, in push_back order
    feature_submission_count_,
    uat_name_column_index_, uat_code_column_index_, county_mn_column_index_,
    current_offset, loop_i,     \* the locals of submit_feature_tasks
    submit_returned,            \* what submit_feature_tasks returned: "none", "true", "false"
    collect_i, features_written_count, \* the locals of collect_and_write_results
    output_file,                \* [open, header_rows, rows]
    tasks_, stop_, workers_,    \* thread_pool
    futures,                    \* the shared state of each future, by task id
    pool_members,               \* tasks_, queue_mutex_, condition_: "alive" or "destroyed"
    completion_order,           \* history: task ids in the order their execution ended
    thrown,                     \* history: ids of the tasks whose enqueue_task threw
    geo,                        \* a bounding_box and a geometry handled on their own
    scan                        \* a property blob and a code text decoded on their own

pipeline_vars ==
    <<input, pc, outcome, exit_code, fgb_buffer_, processing_futures_,
      feature_submission_count_, uat_name_column_index_, uat_code_column_index_,
      county_mn_column_index_, current_offset, loop_i, submit_returned, collect_i,
      features_written_count, output_file>>
pool_vars == <<tasks_, stop_, workers_, futures, pool_members, completion_order, thrown>>
vars == <<pipeline_vars, pool_vars, geo, scan>>

\* geo outside the specification of the geometry functions
NoGeo == [mode |-> "none"]
NoScan == [mode |-> "none"]

\* ------------------------------------------------------------- thread_pool
\* A worker is at "lock" (about to take queue_mutex_ and evaluate the wait
\* predicate), "sleeping" (blocked inside condition_.wait), "run" (holds a
\* dequeued task, outside the lock) or "exited" (returned from worker_loop).
Worker(at, task) == [at |-> at, task |-> task]
NoTask == [id |-> 0]
Task(id, data, throws) == [id |-> id, data |-> data, throws |-> throws]

\* thread_pool::thread_pool: num_threads workers entering worker_loop
StartWorkers(num_threads) == [w \in 1..num_threads |-> Worker("lock", NoTask)]

\* enqueue_task from the lock to the emplace: [thrown, tasks]
enqueue_task_unchecked(task) == [thrown |-> FALSE, tasks |-> Append(tasks_, task)]
enqueue_task(task) ==
    IF stop_ THEN [thrown |-> TRUE, tasks |-> tasks_]
    ELSE [thrown |-> FALSE, tasks |-> Append(tasks_, task)]

Sleeping == {w \in DOMAIN workers_ : workers_[w].at = "sleeping"}

\* condition_.notify_one(): the workers_ that can result, one sleeper woken
\* if there is any
NotifyNobody == {workers_}
NotifyOne ==
    IF Sleeping = {} THEN {workers_}
    ELSE {[workers_ EXCEPT ![w].at = "lock"] : w \in Sleeping}

\* condition_.notify_all()
NotifyAll ==
    [w \in DOMAIN workers_ |->
        IF workers_[w].at = "sleeping" THEN Worker("lock", NoTask) ELSE workers_[w]]

\* the predicate handed to condition_.wait
WaitPredicate == stop_ \/ tasks_ # <<>>

\* process_single_feature_task: the task every caller here submits
process_single_feature_task(task_data) ==
    [uat_name |-> task_data.uat_name, uat_code |-> task_data.uat_code,
     county_mn |-> task_data.county_mn,
     bbox |-> calculate_for_geometry(task_data.geometry_ptr, task_data.coordinate_stride,
                                     task_data.actual_geometry_type)]

\* std::packaged_task::operator(): the state the future is left in. A task
\* throws when copying its bound argument fails; the exception is stored.
RunPackagedTaskDropsFailure(task) ==
    IF task.throws THEN [state |-> "pending"]
    ELSE [state |-> "ready", value |-> process_single_feature_task(task.data)]
RunPackagedTask(task) ==
    IF task.throws THEN [state |-> "exception"]
    ELSE [state |-> "ready", value |-> process_single_feature_task(task.data)]

Pending == [state |-> "pending"]

\* worker_loop: wait() finds the predicate false and blocks
WorkerSleep(w) ==
    /\ workers_[w].at = "lock"
    /\ ~WaitPredicate
    /\ workers_' = [workers_ EXCEPT ![w].at = "sleeping"]
    /\ UNCHANGED <<pipeline_vars, geo, scan, pool_members, tasks_, stop_, futures, completion_order, thrown>>

\* a spurious wake-up: wait() re-evaluates its predicate
WorkerSpuriousWake(w) ==
    /\ workers_[w].at = "sleeping"
    /\ workers_' = [workers_ EXCEPT ![w].at = "lock"]
    /\ UNCHANGED <<pipeline_vars, geo, scan, pool_members, tasks_, stop_, futures, completion_order, thrown>>

\* worker_loop: stop_ and an empty queue: return
WorkerExit(w) ==
    /\ workers_[w].at = "lock"
    /\ stop_ /\ tasks_ = <<>>
    /\ workers_' = [workers_ EXCEPT ![w].at = "exited"]
    /\ UNCHANGED <<pipeline_vars, geo, scan, pool_members, tasks_, stop_, futures, completion_order, thrown>>

\* the task a worker takes from tasks_
QueueBack(q) == q[Len(q)]
QueueFront(q) == Head(q)

\* worker_loop: move the front task out and pop it, under the lock
WorkerDequeue(w) ==
    /\ workers_[w].at = "lock"
    /\ tasks_ # <<>>
    /\ workers_' = [workers_ EXCEPT ![w] = Worker("run", QueueFront(tasks_))]
    /\ tasks_' = Tail(tasks_)
    /\ UNCHANGED <<pipeline_vars, geo, scan, pool_members, stop_, futures, completion_order, thrown>>

\* worker_loop: task_to_execute() inside try / catch (...)
WorkerExecute(w) ==
    /\ workers_[w].at = "run"
    /\ futures' = [futures EXCEPT ![workers_[w].task.id] = RunPackagedTask(workers_[w].task)]
    /\ completion_order' = Append(completion_order, workers_[w].task.id)
    /\ workers_' = [workers_ EXCEPT ![w] = Worker("lock", NoTask)]
    /\ UNCHANGED <<pipeline_vars, geo, scan, pool_members, tasks_, stop_, thrown>>

\* --------------------------------------------------------- run_application
IsThreadsOption(arg) == arg = "-t" \/ arg = "--threads"

RECURSIVE ExtractLoop(_, _, _, _)
\* the loop of extract_positional_args over argv[i], i 1-based: <<input, output>>
ExtractLoop(argv, i, input_path, output_path) ==
    IF i > Len(argv) THEN <<input_path, output_path>>
    ELSE IF IsThreadsOption(argv[i]) THEN ExtractLoop(argv, i + 2, input_path, output_path)
    ELSE IF input_path = "" THEN ExtractLoop(argv, i + 1, argv[i], output_path)
    ELSE IF output_path = "" THEN ExtractLoop(argv, i + 1, input_path, argv[i])
    ELSE ExtractLoop(argv, i + 1, input_path, output_path)

extract_positional_args(argv) == ExtractLoop(argv, 1, "", "")

\* std::stoi on the arguments used here: [ok, value]
StoI(arg) == IF arg = "2" THEN [ok |-> TRUE, value |-> 2] ELSE [ok |-> FALSE, value |-> 0]

RECURSIVE ThreadCountLoop(_, _, _)
ThreadCountLoop(argv, i, default_threads) ==
    IF i > Len(argv) THEN default_threads
    ELSE IF IsThreadsOption(argv[i]) /\ i + 1 <= Len(argv) /\ StoI(argv[i + 1]).ok
         THEN IF StoI(argv[i + 1]).value > 0 THEN StoI(argv[i + 1]).value ELSE 1
    ELSE ThreadCountLoop(argv, i + 1, default_threads)

parse_thread_count(argv, default_threads) == ThreadCountLoop(argv, 1, default_threads)

\* the value run_application returns for each way its try block ends
ExitCodeSwapped(how) ==
    CASE how = "true" -> 0 [] how = "false" -> 1
      [] how = "std_exception" -> 3 [] how = "other_exception" -> 2
ExitCode(how) ==
    CASE how = "true" -> 0 [] how = "false" -> 1
      [] how = "std_exception" -> 2 [] how = "other_exception" -> 3

unchanged_members ==
    UNCHANGED <<fgb_buffer_, processing_futures_, feature_submission_count_,
                uat_name_column_index_, uat_code_column_index_, county_mn_column_index_>>
unchanged_locals ==
    UNCHANGED <<current_offset, loop_i, submit_returned, collect_i, features_written_count>>

\* run_application up to the construction of the processor
RunApplication ==
    /\ pc = "run_application"
    /\ LET paths == extract_positional_args(input.argv)
       IN  IF Len(input.argv) + 1 < 3 \/ paths[1] = "" \/ paths[2] = ""
           THEN /\ exit_code' = 1
                /\ pc' = "exited"
                /\ UNCHANGED workers_
           ELSE /\ workers_' = StartWorkers(parse_thread_count(input.argv, input.num_threads))
                /\ pc' = "initialize_file_buffer"
                /\ UNCHANGED exit_code
    /\ unchanged_members /\ unchanged_locals
    /\ UNCHANGED <<input, geo, scan, outcome, output_file, tasks_, stop_, futures,
                   pool_members, completion_order, thrown>>

\* process_features returns false, or an exception leaves it
Leave(how) ==
    /\ outcome' = how
    /\ pc' = "destroy"

\* initialize_file_buffer with load_file_to_buffer
InitializeFileBuffer ==
    /\ pc = "initialize_file_buffer"
    /\ processing_futures_' = <<>>
    /\ feature_submission_count_' = 0
    /\ uat_name_column_index_' = NoIndex
    /\ uat_code_column_index_' = NoIndex
    /\ county_mn_column_index_' = NoIndex
    /\ IF input.fault = "open_fail"
       THEN /\ fgb_buffer_' = [state |-> "empty", size |-> 0]
            /\ Leave("std_exception")
       ELSE IF input.fault = "foreign"
       THEN /\ fgb_buffer_' = [state |-> "empty", size |-> 0]
            /\ Leave("other_exception")
       ELSE /\ fgb_buffer_' = [state |-> "loaded", size |-> input.file.size]
            /\ IF input.file.size = 0 \/ input.file.size < min_fgb_file_size_
               THEN Leave("false")
               ELSE pc' = "parse_and_validate_header" /\ UNCHANGED outcome
    /\ unchanged_locals
    /\ UNCHANGED <<input, geo, scan, exit_code, output_file, pool_vars>>

\* parse_and_validate_header: TRUE when the header is accepted
parse_and_validate_header_no_magic(file, size) ==
    /\ ~(size < magic_size)
    /\ ~(magic_size + 4 > size)
    /\ ~(magic_size + 4 + file.header_size > size)
parse_and_validate_header(file, size) ==
    /\ ~(size < magic_size)
    /\ file.magic_ok
    /\ ~(magic_size + 4 > size)
    /\ ~(magic_size + 4 + file.header_size > size)

ParseAndValidateHeader ==
    /\ pc = "parse_and_validate_header"
    /\ IF parse_and_validate_header(input.file, fgb_buffer_.size)
       THEN pc' = "resolve_columns" /\ UNCHANGED outcome
       ELSE Leave("false")
    /\ unchanged_members /\ unchanged_locals
    /\ UNCHANGED <<input, geo, scan, exit_code, output_file, pool_vars>>

\* process_features: the three find_property_index_by_name calls
ResolveColumns ==
    /\ pc = "resolve_columns"
    /\ uat_name_column_index_' =
           find_property_index_by_name(input.file.header, expected_uat_name_column_)
    /\ uat_code_column_index_' =
           find_property_index_by_name(input.file.header, expected_uat_code_column_)
    /\ county_mn_column_index_' =
           find_property_index_by_name(input.file.header, expected_county_mn_column_)
    /\ pc' = "open_output"
    /\ unchanged_locals
    /\ UNCHANGED <<input, geo, scan, outcome, exit_code, fgb_buffer_, processing_futures_,
                   feature_submission_count_, output_file, pool_vars>>

\* process_features: std::ofstream output_file {output_csv_path_}
OpenOutput ==
    /\ pc = "open_output"
    /\ IF input.output_ok
       THEN /\ output_file' = [output_file EXCEPT !.opened = TRUE]
            /\ pc' = "check_geometry_type"
            /\ UNCHANGED outcome
       ELSE /\ Leave("false")
            /\ UNCHANGED output_file
    /\ unchanged_members /\ unchanged_locals
    /\ UNCHANGED <<input, geo, scan, exit_code, pool_vars>>

SupportedGeometryTypeAny(header_geom_type) == TRUE
SupportedGeometryType(header_geom_type) ==
    header_geom_type = "Polygon" \/ header_geom_type = "MultiPolygon"

CoordinateStride(header) ==
    default_coordinate_stride_ + (IF header.has_z THEN 1 ELSE 0) + (IF header.has_m THEN 1 ELSE 0)

\* the cursor process_features hands to submit_feature_tasks
OffsetAfterHeader(file) ==
    magic_size + 4 + file.header_size
    + (IF file.header.index_node_size > 0 /\ file.header.features_count > 0
       THEN file.index_bytes ELSE 0)

\* write_csv_header sends the header row to the stream
write_csv_header_nothing(out_file) == out_file
write_csv_header(out_file) == [out_file EXCEPT !.header_rows = @ + 1]

\* process_features from the geometry type check to the call of submit_feature_tasks
CheckGeometryTypeAndWriteHeader ==
    /\ pc = "check_geometry_type"
    /\ IF SupportedGeometryType(input.file.header.geometry_type)
       THEN /\ output_file' = write_csv_header(output_file)
            /\ current_offset' = OffsetAfterHeader(input.file)
            /\ loop_i' = 0
            /\ pc' = "submit_feature_tasks"
            /\ UNCHANGED outcome
       ELSE /\ Leave("false")
            /\ UNCHANGED <<output_file, current_offset, loop_i>>
    /\ unchanged_members
    /\ UNCHANGED <<input, geo, scan, exit_code, submit_returned, collect_i, features_written_count,
                   pool_vars>>
\* ---------------------------------------------------- submit_feature_tasks
\* the fallback name built when the name lookup gives nothing; count is
\* feature_submission_count_ before this feature is counted
FallbackNameZeroBased(count) == uat_name_fallback_prefix_ \o ToDecimal(count)
FallbackName(count) == uat_name_fallback_prefix_ \o ToDecimal(count + 1)

\* the record length can be read at the cursor
LengthReadableAlways(offset, buffer_size) == TRUE
LengthReadable(offset, buffer_size) == ~(offset + 4 > buffer_size)
\* the whole record lies inside the buffer
RecordFitsUnchecked(offset, feature_size, buffer_size) == TRUE
RecordFits(offset, feature_size, buffer_size) ==
    ~(offset + 4 + feature_size > buffer_size)

\* the size-prefixed record the cursor is at in iteration i (0-based)
RecordAt(file, i) == file.features[i + 1]

Lookup(fbs_feature, fbs_header, index) ==
    IF index # NoIndex THEN get_string_value_for_property(fbs_feature, fbs_header, index)
    ELSE <<>>

\* the task_input_data built for one feature, count features submitted before it
TaskInputData(fbs_feature, fbs_header, stride, count) ==
    LET uat_name_val == Lookup(fbs_feature, fbs_header, uat_name_column_index_)
    IN  [uat_name |-> IF uat_name_val = <<>> THEN FallbackName(count) ELSE uat_name_val,
         uat_code |-> IF uat_code_column_index_ # NoIndex
                      THEN ParseUatCode(Lookup(fbs_feature, fbs_header, uat_code_column_index_))
                      ELSE ZeroText,
         county_mn |-> county_code(Lookup(fbs_feature, fbs_header, county_mn_column_index_)),
         geometry_ptr |-> fbs_feature.geometry,
         coordinate_stride |-> stride,
         actual_geometry_type |-> IF fbs_feature.geometry.null THEN "Unknown"
                                  ELSE fbs_feature.geometry.type]

\* one iteration of the loop, up to the emplace inside enqueue_task
SubmitFeature ==
    /\ pc = "submit_feature_tasks"
    /\ loop_i < input.file.header.features_count
    /\ IF ~LengthReadable(current_offset, fgb_buffer_.size)
          \/ ~RecordFits(current_offset, RecordAt(input.file, loop_i).size, fgb_buffer_.size)
       THEN /\ submit_returned' = "false"
            /\ collect_i' = 0
            /\ features_written_count' = 0
            /\ pc' = "collect_and_write_results"
            /\ UNCHANGED <<outcome, current_offset, feature_submission_count_, tasks_,
                           futures, thrown>>
       ELSE LET fbs_feature == RecordAt(input.file, loop_i)
                id == feature_submission_count_ + 1
                data == TaskInputData(fbs_feature, input.file.header,
                                      CoordinateStride(input.file.header),
                                      feature_submission_count_)
                \* std::make_shared in enqueue_task can throw std::bad_alloc
                r == IF input.alloc_fail_at = id THEN [thrown |-> TRUE, tasks |-> tasks_]
                     ELSE enqueue_task(Task(id, data, id \in input.failing))
            IN  /\ current_offset' = current_offset + 4 + fbs_feature.size
                /\ feature_submission_count_' = id
                /\ IF r.thrown
                   THEN /\ Leave("std_exception")
                        /\ thrown' = thrown \cup {id}
                        /\ UNCHANGED <<tasks_, futures>>
                   ELSE /\ tasks_' = r.tasks
                        /\ futures' = futures @@ (id :> Pending)
                        /\ pc' = "notify_one"
                        /\ UNCHANGED <<outcome, thrown>>
                /\ UNCHANGED <<submit_returned, collect_i, features_written_count>>
    /\ UNCHANGED <<input, geo, scan, exit_code, fgb_buffer_, processing_futures_, uat_name_column_index_,
                   uat_code_column_index_, county_mn_column_index_, loop_i, output_file,
                   stop_, workers_, pool_members, completion_order>>

\* the rest of the iteration: notify_one, the returned future is pushed back
NotifyAndStoreFuture ==
    /\ pc = "notify_one"
    /\ workers_' \in NotifyOne
    /\ processing_futures_' = Append(processing_futures_, feature_submission_count_)
    /\ loop_i' = loop_i + 1
    /\ pc' = "submit_feature_tasks"
    /\ UNCHANGED <<input, geo, scan, outcome, exit_code, fgb_buffer_, feature_submission_count_,
                   uat_name_column_index_, uat_code_column_index_, county_mn_column_index_,
                   current_offset, submit_returned, collect_i, features_written_count,
                   output_file, tasks_, stop_, futures, pool_members, completion_order,
                   thrown>>

\* the loop ends after features_count iterations
SubmitEnd ==
    /\ pc = "submit_feature_tasks"
    /\ ~(loop_i < input.file.header.features_count)
    /\ submit_returned' = "true"
    /\ collect_i' = 0
    /\ features_written_count' = 0
    /\ pc' = "collect_and_write_results"
    /\ unchanged_members
    /\ UNCHANGED <<input, geo, scan, outcome, exit_code, current_offset, loop_i, output_file, pool_vars>>

\* ----------------------------------------------- collect_and_write_results
\* the data row written for one result
\* what write_csv_row sends to the stream is modelled as a sequence of
\* tokens: the delimiter, or a value
csv_delimiter_ == [kind |-> "delimiter"]
Value(v) == [kind |-> "value", value |-> v]

\* what write_csv_row sends to the stream between the third delimiter and
\* the one in front of the area
CoordinateTokensShort(bbox) ==
    IF bbox.is_valid
    THEN <<Value(bbox.min_x), csv_delimiter_, Value(bbox.min_y), csv_delimiter_,
           Value(bbox.max_x), csv_delimiter_, Value(bbox.max_y)>>
    ELSE <<csv_delimiter_, csv_delimiter_>>
CoordinateTokens(bbox) ==
    IF bbox.is_valid
    THEN <<Value(bbox.min_x), csv_delimiter_, Value(bbox.min_y), csv_delimiter_,
           Value(bbox.max_x), csv_delimiter_, Value(bbox.max_y)>>
    ELSE <<csv_delimiter_, csv_delimiter_, csv_delimiter_>>

\* the values and delimiters write_csv_row sends to the stream, in order,
\* up to the newline; an empty string sends nothing
RowTokens(result) ==
    <<Value(result.uat_name), csv_delimiter_, Value(result.uat_code), csv_delimiter_>>
    \o (IF county_to_string(result.county_mn) = <<>> THEN <<>>
        ELSE <<Value(county_to_string(result.county_mn))>>)
    \o <<csv_delimiter_>>
    \o CoordinateTokens(result.bbox)
    \o <<csv_delimiter_>>
    \o (IF result.bbox.is_valid
        THEN <<Value((result.bbox.max_x - result.bbox.min_x)
                     * (result.bbox.max_y - result.bbox.min_y))>>
        ELSE <<>>)

write_csv_row(result) ==
    [line |-> RowTokens(result),
     uat_name |-> result.uat_name, uat_code |-> result.uat_code,
     county_code_mn |-> county_to_string(result.county_mn),
     coordinates |-> IF result.bbox.is_valid
                     THEN <<result.bbox.min_x, result.bbox.min_y,
                            result.bbox.max_x, result.bbox.max_y>>
                     ELSE <<>>,
     area_sq_m |-> IF result.bbox.is_valid
                   THEN <<(result.bbox.max_x - result.bbox.min_x)
                          * (result.bbox.max_y - result.bbox.min_y)>>
                   ELSE <<>>]

\* the handle the range-for is at in iteration i (0-based)
HandleByCompletion(i) ==
    IF i + 1 <= Len(completion_order) THEN completion_order[i + 1]
    ELSE processing_futures_[i + 1]
HandleAt(i) == processing_futures_[i + 1]

\* the value collect_and_write_results returns
CollectReturnsAlwaysTrue(written, total_features_submitted) == TRUE
CollectReturns(written, total_features_submitted) == written = total_features_submitted

\* one iteration: fut.get() blocks until the state is ready, then the row is
\* written, or the stored exception is caught and the row skipped
CollectResult ==
    /\ pc = "collect_and_write_results"
    /\ collect_i < Len(processing_futures_)
    /\ futures[HandleAt(collect_i)].state # "pending"
    /\ IF futures[HandleAt(collect_i)].state = "ready"
       THEN /\ output_file' = [output_file EXCEPT
                   !.rows = Append(@, write_csv_row(futures[HandleAt(collect_i)].value))]
            /\ features_written_count' = features_written_count + 1
       ELSE UNCHANGED <<output_file, features_written_count>>
    /\ collect_i' = collect_i + 1
    /\ unchanged_members
    /\ UNCHANGED <<input, geo, scan, pc, outcome, exit_code, current_offset, loop_i, submit_returned,
                   pool_vars>>

\* the loop is over: process_features returns what collect_and_write_results returned
CollectEnd ==
    /\ pc = "collect_and_write_results"
    /\ ~(collect_i < Len(processing_futures_))
    /\ Leave(IF CollectReturns(features_written_count, feature_submission_count_)
             THEN "true" ELSE "false")
    /\ unchanged_members /\ unchanged_locals
    /\ UNCHANGED <<input, geo, scan, exit_code, output_file, pool_vars>>

\* ---------------------------------------------------------------- teardown
\* ~flatgeobuf_processor: the futures and the buffer go, then ~thread_pool
\* sets stop_ under the lock and notifies all
DestroyProcessor ==
    /\ pc = "destroy"
    /\ processing_futures_' = <<>>
    /\ fgb_buffer_' = [state |-> "destroyed", size |-> 0]
    /\ stop_' = TRUE
    /\ workers_' = NotifyAll
    /\ pc' = "join"
    /\ unchanged_locals
    /\ UNCHANGED <<input, geo, scan, outcome, exit_code, feature_submission_count_,
                   uat_name_column_index_, uat_code_column_index_, county_mn_column_index_,
                   output_file, tasks_, futures, pool_members, completion_order, thrown>>

\* the tasks still in the queue when it is destroyed: their packaged_task
\* goes unexecuted and the shared state gets a broken promise
Abandon(queue) ==
    [id \in DOMAIN futures |->
        IF \E i \in DOMAIN queue : queue[i].id = id
        THEN [state |-> "broken_promise"] ELSE futures[id]]

\* the members of thread_pool are destroyed after the destructor body, in
\* reverse order of declaration: stop_, condition_, queue_mutex_, tasks_ go
\* before workers_, whose std::jthread elements join only then. The owner
\* does not wait for the workers in between.
DestroyPoolMembers ==
    /\ stop_
    /\ pool_members = "alive"
    /\ pc # "client_notify"
    /\ pool_members' = "destroyed"
    /\ tasks_' = <<>>
    /\ futures' = Abandon(tasks_)
    /\ UNCHANGED <<pipeline_vars, geo, scan, stop_, workers_, completion_order, thrown>>

\* a worker that takes queue_mutex_ or reads tasks_ after they were destroyed
\* has undefined behaviour: it may go on with what it finds (WorkerExit,
\* stop_ set and nothing queued) or fault and never return
WorkerFault(w) ==
    /\ pool_members = "destroyed"
    /\ workers_[w].at = "lock"
    /\ workers_' = [workers_ EXCEPT ![w].at = "faulted"]
    /\ UNCHANGED <<pipeline_vars, geo, scan, pool_members, tasks_, stop_, futures,
                   completion_order, thrown>>

\* the geometry a task computes on lies in fgb_buffer_: a task that runs
\* after the buffer was destroyed reads freed memory, which is undefined
\* behaviour; it may still find the bytes (WorkerExecute) or fault
WorkerReadsFreedBuffer(w) ==
    /\ fgb_buffer_.state = "destroyed"
    /\ workers_[w].at = "run"
    /\ workers_' = [workers_ EXCEPT ![w].at = "faulted"]
    /\ UNCHANGED <<pipeline_vars, geo, scan, pool_members, tasks_, stop_, futures,
                   completion_order, thrown>>

AllExited == \A w \in DOMAIN workers_ : workers_[w].at = "exited"

\* the std::jthread destructors join; run_application returns
JoinAndReturn ==
    /\ pc = "join"
    /\ pool_members = "destroyed"
    /\ AllExited
    /\ exit_code' = ExitCode(outcome)
    /\ pc' = "exited"
    /\ unchanged_members /\ unchanged_locals
    /\ UNCHANGED <<input, geo, scan, outcome, output_file, pool_vars>>

\* ----------------------------------------------------------- specification
Init ==
    /\ input \in Inputs
    /\ pc = "run_application"
    /\ outcome = "none"
    /\ exit_code = -1
    /\ fgb_buffer_ = [state |-> "empty", size |-> 0]
    /\ processing_futures_ = <<>>
    /\ feature_submission_count_ = 0
    /\ uat_name_column_index_ = NoIndex
    /\ uat_code_column_index_ = NoIndex
    /\ county_mn_column_index_ = NoIndex
    /\ current_offset = 0
    /\ loop_i = 0
    /\ submit_returned = "none"
    /\ collect_i = 0
    /\ features_written_count = 0
    /\ output_file = [opened |-> FALSE, header_rows |-> 0, rows |-> <<>>]
    /\ tasks_ = <<>>
    /\ stop_ = FALSE
    /\ workers_ = <<>>
    /\ futures = <<>>
    /\ completion_order = <<>>
    /\ thrown = {}
    /\ pool_members = "alive"
    /\ geo = NoGeo
    /\ scan = NoScan

Next ==
    \/ RunApplication
    \/ InitializeFileBuffer
    \/ ParseAndValidateHeader
    \/ ResolveColumns
    \/ OpenOutput
    \/ CheckGeometryTypeAndWriteHeader
    \/ SubmitFeature
    \/ NotifyAndStoreFuture
    \/ SubmitEnd
    \/ CollectResult
    \/ CollectEnd
    \/ DestroyProcessor
    \/ DestroyPoolMembers
    \/ JoinAndReturn
    \/ \E w \in DOMAIN workers_ : WorkerSleep(w)
    \/ \E w \in DOMAIN workers_ : WorkerSpuriousWake(w)
    \/ \E w \in DOMAIN workers_ : WorkerDequeue(w)
    \/ \E w \in DOMAIN workers_ : WorkerExecute(w)
    \/ \E w \in DOMAIN workers_ : WorkerExit(w)
    \/ \E w \in DOMAIN workers_ : WorkerFault(w)
    \/ \E w \in DOMAIN workers_ : WorkerReadsFreedBuffer(w)

Spec == Init /\ [][Next]_vars
\* ------------------------------------------- the pool on its own: SpecPool
\* thread_pool used directly: callers call enqueue_task from any thread, the
\* owner runs ~thread_pool at any moment. pc is "client" between calls and
\* "client_notify" between the emplace and the notify_one of a call.
EnqueueCalls == Cardinality(DOMAIN futures) + Cardinality(thrown)

PoolTaskData(id) ==
    [uat_name |-> SampleName(id), uat_code |-> ZeroText, county_mn |-> county_code(<<>>),
     geometry_ptr |-> SampleGeometry(id, "Polygon"),
     coordinate_stride |-> default_coordinate_stride_, actual_geometry_type |-> "Polygon"]

\* enqueue_task up to the end of the locked block: it throws, or the task is queued
PoolEnqueue ==
    /\ pc = "client"
    /\ pool_members = "alive"
    /\ EnqueueCalls < MaxPoolTasks
    /\ \E throws \in BOOLEAN :
         LET id == EnqueueCalls + 1
             r == enqueue_task(Task(id, PoolTaskData(id), throws))
         IN  IF r.thrown
             THEN /\ thrown' = thrown \cup {id}
                  /\ UNCHANGED <<tasks_, futures, pc, feature_submission_count_>>
             ELSE /\ tasks_' = r.tasks
                  /\ futures' = futures @@ (id :> Pending)
                  /\ feature_submission_count_' = id
                  /\ pc' = "client_notify"
                  /\ UNCHANGED thrown
    /\ unchanged_locals
    /\ UNCHANGED <<input, geo, scan, outcome, exit_code, fgb_buffer_, processing_futures_,
                   uat_name_column_index_, uat_code_column_index_, county_mn_column_index_,
                   output_file, stop_, workers_, pool_members, completion_order>>

\* enqueue_task: notify_one, the future is returned to the caller
PoolNotify ==
    /\ pc = "client_notify"
    /\ workers_' \in NotifyOne
    /\ processing_futures_' = Append(processing_futures_, feature_submission_count_)
    /\ pc' = "client"
    /\ unchanged_locals
    /\ UNCHANGED <<input, geo, scan, outcome, exit_code, fgb_buffer_, feature_submission_count_,
                   uat_name_column_index_, uat_code_column_index_, county_mn_column_index_,
                   output_file, tasks_, stop_, futures, pool_members, completion_order,
                   thrown>>

\* ~thread_pool: stop_ = true under the lock, notify_all
PoolStop ==
    /\ pc = "client"
    /\ ~stop_
    /\ stop_' = TRUE
    /\ workers_' = NotifyAll
    /\ UNCHANGED <<pipeline_vars, geo, scan, pool_members, tasks_, futures, completion_order, thrown>>

InitPool ==
    /\ input \in {MakeInput([BaseParams EXCEPT !.num_threads = w]) : w \in 1..MaxWorkers}
    /\ pc = "client"
    /\ outcome = "none"
    /\ exit_code = -1
    /\ fgb_buffer_ = [state |-> "empty", size |-> 0]
    /\ processing_futures_ = <<>>
    /\ feature_submission_count_ = 0
    /\ uat_name_column_index_ = NoIndex
    /\ uat_code_column_index_ = NoIndex
    /\ county_mn_column_index_ = NoIndex
    /\ current_offset = 0
    /\ loop_i = 0
    /\ submit_returned = "none"
    /\ collect_i = 0
    /\ features_written_count = 0
    /\ output_file = [opened |-> FALSE, header_rows |-> 0, rows |-> <<>>]
    /\ tasks_ = <<>>
    /\ stop_ = FALSE
    /\ workers_ = StartWorkers(input.num_threads)
    /\ futures = <<>>
    /\ completion_order = <<>>
    /\ thrown = {}
    /\ pool_members = "alive"
    /\ geo = NoGeo
    /\ scan = NoScan

\* the std::jthread destructors of workers_ return: every worker has left
\* worker_loop
PoolJoin ==
    /\ pc = "client"
    /\ pool_members = "destroyed"
    /\ AllExited
    /\ pc' = "joined"
    /\ unchanged_members /\ unchanged_locals
    /\ UNCHANGED <<input, geo, scan, outcome, exit_code, output_file, pool_vars>>

NextPool ==
    \/ PoolEnqueue
    \/ PoolNotify
    \/ PoolStop
    \/ DestroyPoolMembers
    \/ PoolJoin
    \/ \E w \in DOMAIN workers_ : WorkerSleep(w)
    \/ \E w \in DOMAIN workers_ : WorkerSpuriousWake(w)
    \/ \E w \in DOMAIN workers_ : WorkerDequeue(w)
    \/ \E w \in DOMAIN workers_ : WorkerExecute(w)
    \/ \E w \in DOMAIN workers_ : WorkerExit(w)
    \/ \E w \in DOMAIN workers_ : WorkerFault(w)

SpecPool == InitPool /\ [][NextPool]_vars

\* the step a worker thread takes when it is scheduled; a thread blocked in
\* condition_.wait has none until it is notified
WorkerStep(w) ==
    /\ w \in DOMAIN workers_
    /\ (WorkerSleep(w) \/ WorkerDequeue(w) \/ WorkerExecute(w) \/ WorkerExit(w))

\* the steps the main thread takes when it is scheduled, once a record has
\* been handed to enqueue_task: the notify_one that follows the emplace, the
\* end of the loop, and the collection. Nothing is assumed about how soon the
\* loop reads its next record (SubmitFeature), which only weakens the
\* scheduling assumption.
MainStep ==
    \/ RunApplication \/ InitializeFileBuffer \/ ParseAndValidateHeader \/ ResolveColumns
    \/ OpenOutput \/ CheckGeometryTypeAndWriteHeader
    \/ NotifyAndStoreFuture \/ SubmitEnd \/ CollectResult \/ CollectEnd

\* the runs followed to their end under fair scheduling: complete files with
\* every number of workers, a task whose result cannot be retrieved, an
\* exception during submission
FairInputs ==
    {MakeInput(p) : p \in
        {[BaseParams EXCEPT !.num_threads = w] : w \in 1..MaxWorkers}
        \cup {[BaseParams EXCEPT !.num_threads = MaxWorkers, !.failing = {2}],
              [BaseParams EXCEPT !.alloc_fail_at = 2]}}

\* the program with a main thread and worker threads that are scheduled fairly
InitFair == Init /\ input \in FairInputs

SpecFair ==
    /\ InitFair
    /\ [][Next]_vars
    /\ WF_vars(MainStep)
    /\ \A w \in 1..MaxWorkers : WF_vars(WorkerStep(w))

\* the pool with worker threads that are scheduled fairly
SpecPoolFair == SpecPool /\ \A w \in 1..MaxWorkers : WF_vars(WorkerStep(w))

\* ------------------- bounding_box and geometry_processor alone: SpecGeometry
\* geo is either a bounding_box under a sequence of update calls, or a
\* geometry table handed once to calculate_for_geometry.
CoordValues == {-2, -1, 1, 2}
Square == <<0, 0, 4, 0, 4, 3, 0, 3>>

PolygonInputs ==
    {Geom("Polygon", TRUE, Square, FALSE, <<>>),
     Geom("Polygon", TRUE, Square, TRUE, <<>>),
     Geom("Polygon", FALSE, <<>>, FALSE, <<>>),
     Geom("Polygon", TRUE, <<>>, FALSE, <<>>),
     Geom("Polygon", FALSE, <<>>, TRUE, <<Ring(Square)>>),
     Geom("Polygon", TRUE, <<9, 9>>, TRUE, <<Ring(Square)>>),
     Geom("Polygon", FALSE, <<>>, TRUE, <<Ring(Square), Ring(<<1, 1, 2, 1, 2, 2>>)>>),
     Geom("Polygon", FALSE, <<>>, TRUE, <<Ring(<<-4, -3, -1, -3, -1, -1>>), Ring(<<>>)>>),
     Geom("Polygon", FALSE, <<>>, TRUE, <<Ring(<<-1, 5, 6, -2>>), NullGeometry>>)}

MultiPolygonInputs ==
    {Geom("MultiPolygon", FALSE, <<>>, FALSE, <<>>),
     Geom("MultiPolygon", FALSE, <<>>, TRUE, <<>>)}
    \cup {Geom("MultiPolygon", FALSE, <<>>, TRUE, <<a>>) : a \in PolygonInputs}
    \cup {Geom("MultiPolygon", FALSE, <<>>, TRUE, <<a, b>>) : a, b \in PolygonInputs}
    \cup {Geom("MultiPolygon", FALSE, <<>>, TRUE,
                <<Geom("Polygon", FALSE, <<>>, TRUE, <<Ring(<<0, 0, 1, 0, 1, 1>>)>>),
                  Geom("Polygon", FALSE, <<>>, TRUE, <<Ring(<<5, 5, 7, 5, 7, 8>>)>>),
                  Geom("Polygon", FALSE, <<>>, TRUE, <<Ring(<<-3, 2, -2, 4>>)>>)>>)}

GeometryInputs ==
    {[geometry |-> g, type |-> g.type, stride |-> default_coordinate_stride_] :
        g \in PolygonInputs \cup MultiPolygonInputs}
    \cup {[geometry |-> NullGeometry, type |-> "Unknown", stride |-> default_coordinate_stride_],
          [geometry |-> Geom("Polygon", TRUE, <<0, 0, 7, 4, 0, 8, 3, 3, 9>>, FALSE, <<>>),
           type |-> "Polygon", stride |-> default_coordinate_stride_ + 1],
          [geometry |-> Geom("Point", TRUE, <<2, -1>>, FALSE, <<>>),
           type |-> "Point", stride |-> default_coordinate_stride_]}

\* bounding_box::update called on the box with some point
BoxUpdate ==
    /\ geo.mode = "box"
    /\ Len(geo.applied) < MaxPoints
    /\ \E x, y \in CoordValues :
         geo' = [geo EXCEPT !.box = update(geo.box, x, y),
                            !.applied = Append(geo.applied, <<x, y>>)]
    /\ UNCHANGED <<pipeline_vars, pool_vars, scan>>

\* calculate_for_geometry called on the geometry
Calculate ==
    /\ geo.mode = "geometry"
    /\ ~geo.done
    /\ geo' = [geo EXCEPT !.done = TRUE,
                          !.result = calculate_for_geometry(geo.input.geometry,
                                                            geo.input.stride, geo.input.type)]
    /\ UNCHANGED <<pipeline_vars, pool_vars, scan>>

\* the arrays handed to update_bbox_from_coordinates on their own: n doubles,
\* the k-th being 10 * k, with every stride the header flags can give
CoordInputs ==
    {[mode |-> "coords", has_xy |-> h, xy |-> [k \in 1..n |-> 10 * k], stride |-> st,
      status |-> "enter", i |-> 0, rounds |-> 0, reads |-> {}, box |-> InvalidBox] :
        h \in BOOLEAN, n \in 0..MaxCoords,
        st \in default_coordinate_stride_..(default_coordinate_stride_ + 2)}

\* the loop condition (i + 1u) < num_doubles
PairInRange(i, num_doubles) == i + 1 < num_doubles
\* i += stride
NextGroupByOne(i, stride) == i + 1
NextGroup(i, stride) == i + stride

\* update_bbox_from_coordinates up to its loop: a null or empty xy() returns
CoordEnter ==
    /\ geo.mode = "coords"
    /\ geo.status = "enter"
    /\ geo' = IF ~geo.has_xy \/ Len(geo.xy) = 0
              THEN [geo EXCEPT !.status = "done"]
              ELSE [geo EXCEPT !.status = "loop"]
    /\ UNCHANGED <<pipeline_vars, pool_vars, scan>>

\* the loop condition and, when it holds, one iteration of the loop
CoordIteration ==
    /\ geo.mode = "coords"
    /\ geo.status = "loop"
    /\ geo' = IF PairInRange(geo.i, Len(geo.xy))
              THEN [geo EXCEPT !.reads = @ \cup {geo.i, geo.i + 1},
                               !.box = update(geo.box, geo.xy[geo.i + 1], geo.xy[geo.i + 2]),
                               !.rounds = @ + 1,
                               !.i = NextGroup(geo.i, geo.stride)]
              ELSE [geo EXCEPT !.status = "done"]
    /\ UNCHANGED <<pipeline_vars, pool_vars, scan>>

InitGeometry ==
    /\ geo \in {[mode |-> "box", box |-> InvalidBox, applied |-> <<>>]} \cup CoordInputs
               \cup {[mode |-> "geometry", input |-> g, done |-> FALSE, result |-> InvalidBox] :
                        g \in GeometryInputs}
    /\ input = MakeInput(BaseParams)
    /\ pc = "geometry"
    /\ outcome = "none"
    /\ exit_code = -1
    /\ fgb_buffer_ = [state |-> "empty", size |-> 0]
    /\ processing_futures_ = <<>>
    /\ feature_submission_count_ = 0
    /\ uat_name_column_index_ = NoIndex
    /\ uat_code_column_index_ = NoIndex
    /\ county_mn_column_index_ = NoIndex
    /\ current_offset = 0
    /\ loop_i = 0
    /\ submit_returned = "none"
    /\ collect_i = 0
    /\ features_written_count = 0
    /\ output_file = [opened |-> FALSE, header_rows |-> 0, rows |-> <<>>]
    /\ tasks_ = <<>>
    /\ stop_ = FALSE
    /\ workers_ = <<>>
    /\ futures = <<>>
    /\ completion_order = <<>>
    /\ thrown = {}
    /\ pool_members = "alive"
    /\ scan = NoScan

NextGeometry ==
    \/ BoxUpdate
    \/ Calculate
    \/ CoordEnter
    \/ CoordIteration

SpecGeometry == InitGeometry /\ [][NextGeometry]_vars

\* ------- get_string_value_for_property and the uat_code parse alone: SpecDecode
\* scan is either a property blob under the scan loop, one iteration per step,
\* with the reads made so far, or a feature whose natcode text goes through
\* the task_input_data block of submit_feature_tasks.
MaxBlob == 7
MaxCode == 3
BlobBytes == {0, 1, 255}
Blobs == UNION {[1..n -> BlobBytes] : n \in 0..MaxBlob}
ScanSchemas ==
    {<<Col("a", "String")>>,
     <<Col("a", "String"), Col("b", "Short")>>,
     <<Col("a", "Json"), Col("b", "String")>>,
     <<Col("a", "Short"), Col("b", "DateTime")>>,
     <<Col("a", "Binary"), Col("b", "UByte")>>}

\* a read of w bytes at offset o of the blob
Rd(o, w) == [o |-> o, w |-> w]

ConvertReadsUnchecked(col_type, blob, value_offset_in_blob, properties_blob_size) ==
    IF value_offset_in_blob >= properties_blob_size THEN {}
    ELSE IF ScalarWidth(col_type) > 0 THEN {Rd(value_offset_in_blob, ScalarWidth(col_type))}
    ELSE {}
\* the reads of read_and_convert_property_value_at_offset
ConvertReads(col_type, blob, value_offset_in_blob, properties_blob_size) ==
    LET remaining == properties_blob_size - value_offset_in_blob
    IN  IF value_offset_in_blob >= properties_blob_size THEN {}
        ELSE IF ScalarWidth(col_type) > 0
             THEN IF ScalarWidth(col_type) > remaining THEN {}
                  ELSE {Rd(value_offset_in_blob, ScalarWidth(col_type))}
        ELSE IF col_type = "String"
             THEN IF 4 > remaining THEN {}
                  ELSE LET len == Read32(blob, value_offset_in_blob)
                       IN  {Rd(value_offset_in_blob, 4)}
                           \cup (IF Leq32(len, remaining - 4)
                                 THEN {Rd(value_offset_in_blob + 4, Value32(len))}
                                 ELSE {})
        ELSE {}

\* the reads of skip_property_value_at_offset
SkipReads(col_type, blob, value_offset_in_blob, properties_blob_size) ==
    IF value_offset_in_blob >= properties_blob_size THEN {}
    ELSE IF ScalarWidth(col_type) > 0 THEN {}
    ELSE IF ~(4 <= properties_blob_size - value_offset_in_blob) THEN {}
    ELSE {Rd(value_offset_in_blob, 4)}

\* the test in front of the read of the column index
IndexReadableAlways(offset, size) == TRUE
IndexReadable(offset, size) == ~(offset + 2 > size)

\* current_offset_in_blob += sizeof(std::uint16_t)
AfterIndexStays(offset) == offset
AfterIndex(offset) == offset + 2

\* the entry test of get_string_value_for_property
ScanEnter ==
    /\ scan.mode = "scan"
    /\ scan.status = "enter"
    /\ scan' = IF scan.target >= Len(scan.columns)
               THEN [scan EXCEPT !.status = "returned"]
               ELSE [scan EXCEPT !.status = "loop"]
    /\ UNCHANGED <<pipeline_vars, pool_vars, geo>>

\* one iteration of the while loop
ScanIteration ==
    /\ scan.mode = "scan"
    /\ scan.status = "loop"
    /\ scan.cursor < Len(scan.blob)
    /\ LET size == Len(scan.blob)
           at == scan.cursor
           entered == [scan EXCEPT !.iterations = @ + 1, !.skipped = <<>>]
       IN  IF ~IndexReadable(at, size)
           THEN scan' = [entered EXCEPT !.status = "broke"]
           ELSE LET current_fbs_col_idx == ReadScalar(scan.blob, at, 2)
                    off == AfterIndex(at)
                    indexed == [entered EXCEPT !.reads = @ \cup {Rd(at, 2)}, !.cursor = off]
                IN  IF current_fbs_col_idx >= Len(scan.columns)
                    THEN scan' = [indexed EXCEPT !.status = "returned"]
                    ELSE LET col_type == scan.columns[current_fbs_col_idx + 1].type
                         IN  IF current_fbs_col_idx = scan.target
                             THEN scan' =
                                    [indexed EXCEPT
                                       !.status = "returned",
                                       !.found = <<[type |-> col_type, off |-> off]>>,
                                       !.reads = @ \cup ConvertReads(col_type, scan.blob, off, size),
                                       !.result = read_and_convert_property_value_at_offset(
                                                      col_type, scan.blob, off, size).text]
                             ELSE LET skip == skip_property_value_at_offset(
                                                  col_type, scan.blob, off, size)
                                      skipping ==
                                          [indexed EXCEPT
                                             !.reads = @ \cup SkipReads(col_type, scan.blob, off, size),
                                             !.skipped = <<[type |-> col_type, off |-> off,
                                                            width |-> skip]>>]
                                  IN  IF skip > size - off
                                      THEN scan' = [skipping EXCEPT !.status = "broke"]
                                      ELSE scan' = [skipping EXCEPT !.cursor = off + skip]
    /\ UNCHANGED <<pipeline_vars, pool_vars, geo>>

\* the loop condition fails: return {}
ScanEnd ==
    /\ scan.mode = "scan"
    /\ scan.status = "loop"
    /\ ~(scan.cursor < Len(scan.blob))
    /\ scan' = [scan EXCEPT !.status = "ended"]
    /\ UNCHANGED <<pipeline_vars, pool_vars, geo>>

ScanInputs ==
    {[mode |-> "scan", blob |-> b, columns |-> c, target |-> t, status |-> "enter",
      cursor |-> 0, iterations |-> 0, reads |-> {}, result |-> <<>>, skipped |-> <<>>,
      found |-> <<>>] :
        b \in Blobs, c \in ScanSchemas, t \in 0..1}

\* the characters of the natcode texts tried: blank, tab, digits, a letter,
\* the signs, and a byte above 127 (negative as a char)
CodeChars == {Space, 9, 48, 55, 97, 45, 43, 200}
CodeTexts ==
    UNION {[1..n -> CodeChars] : n \in 0..MaxCode}
    \cup {<<52, 50, 57, 52, 57, 54, 55, 50, 57, 53>>,
          <<52, 50, 57, 52, 57, 54, 55, 50, 57, 54>>,
          <<48, 48, 52, 50, 57, 52, 57, 54, 55, 50, 57, 53>>,
          <<Space, 52, 50, 57, 52, 57, 54, 55, 50, 57, 53, 10>>,
          <<52, 50, 57, 52, 57, 54, 55, 50, 57, 53, 48>>,
          <<57, 57, 57, 57, 57, 57, 57, 57, 57, 57>>}

\* a feature of a file with the columns of schema whose natcode value, when
\* it has one, is text
CodeFeature(schema, has_value, text) ==
    LET props == StringProp(0, SampleName(1))
                 \o (IF has_value /\ schema = "full" THEN StringProp(1, text) ELSE <<>>)
                 \o StringProp(2, SampleCounty(1))
    IN  [size |-> 8 + Len(props), has_properties |-> TRUE, properties |-> props,
         corrupt_before |-> 0, geometry |-> NullGeometry]

CodeInputs ==
    {[mode |-> "parse", schema |-> "full", has_value |-> TRUE, text |-> t,
      done |-> FALSE, faulted |-> FALSE, data |-> <<>>] : t \in CodeTexts}
    \cup {[mode |-> "parse", schema |-> sc, has_value |-> FALSE, text |-> <<>>,
           done |-> FALSE, faulted |-> FALSE, data |-> <<>>] : sc \in {"full", "no_code"}}

\* ::isspace takes an int that must hold an unsigned char value or EOF; a
\* char above 127 reaches it as a negative int, which is outside its domain
IsspaceDefined(c) == c < 128
NonSpaces(s) == {i \in DOMAIN s : ~IsSpace(s[i])}
\* the two find_if_not scans stop at the first and at the last character that
\* is not a blank: these are the characters ::isspace is called on last
TrimTouchesUndefined(s) ==
    \E i \in NonSpaces(s) :
        /\ ~IsspaceDefined(s[i])
        /\ (\A j \in NonSpaces(s) : i <= j) \/ (\A j \in NonSpaces(s) : j <= i)

\* what the block can do with the text: build the record, or, when ::isspace
\* is called outside its domain, whatever the C library does with it
TrimOutcomes(has_column, text) ==
    IF has_column /\ TrimTouchesUndefined(text) THEN {"built", "fault"} ELSE {"built"}

\* the task_input_data block of submit_feature_tasks for one feature
BuildTaskInput ==
    /\ scan.mode = "parse"
    /\ ~scan.done
    /\ \E o \in TrimOutcomes(uat_code_column_index_ # NoIndex, scan.text) :
         scan' = [scan EXCEPT
                    !.done = TRUE,
                    !.faulted = (o = "fault"),
                    !.data = IF o = "fault" THEN <<>>
                             ELSE <<TaskInputData(
                                        CodeFeature(scan.schema, scan.has_value, scan.text),
                                        [columns |-> Schemas[scan.schema]],
                                        default_coordinate_stride_, 0)>>]
    /\ UNCHANGED <<pipeline_vars, pool_vars, geo>>

InitDecode ==
    /\ scan \in ScanInputs \cup CodeInputs
    /\ geo = NoGeo
    /\ input = MakeInput(BaseParams)
    /\ pc = "decode"
    /\ outcome = "none"
    /\ exit_code = -1
    /\ fgb_buffer_ = [state |-> "empty", size |-> 0]
    /\ processing_futures_ = <<>>
    /\ feature_submission_count_ = 0
    /\ uat_name_column_index_ =
           IF scan.mode = "parse"
           THEN find_property_index_by_name([columns |-> Schemas[scan.schema]],
                                            expected_uat_name_column_)
           ELSE NoIndex
    /\ uat_code_column_index_ =
           IF scan.mode = "parse"
           THEN find_property_index_by_name([columns |-> Schemas[scan.schema]],
                                            expected_uat_code_column_)
           ELSE NoIndex
    /\ county_mn_column_index_ =
           IF scan.mode = "parse"
           THEN find_property_index_by_name([columns |-> Schemas[scan.schema]],
                                            expected_county_mn_column_)
           ELSE NoIndex
    /\ current_offset = 0
    /\ loop_i = 0
    /\ submit_returned = "none"
    /\ collect_i = 0
    /\ features_written_count = 0
    /\ output_file = [opened |-> FALSE, header_rows |-> 0, rows |-> <<>>]
    /\ tasks_ = <<>>
    /\ stop_ = FALSE
    /\ workers_ = <<>>
    /\ futures = <<>>
    /\ completion_order = <<>>
    /\ thrown = {}
    /\ pool_members = "alive"

NextDecode ==
    \/ ScanEnter
    \/ ScanIteration
    \/ ScanEnd
    \/ BuildTaskInput

SpecDecode == InitDecode /\ [][NextDecode]_vars
\* ================================================================== claims
\* The vocabulary of the claims, stated on the input and on the output alone.
Rows == output_file.rows
Finished == pc = "exited"
\* process_features ran to a return (no exception left it)
Returned == pc \in {"destroy", "join", "exited"} /\ outcome \in {"true", "false"}

RECURSIVE Positional(_, _)
\* the arguments that are neither a threads option nor its value
Positional(argv, i) ==
    IF i > Len(argv) THEN <<>>
    ELSE IF argv[i] \in {"-t", "--threads"} THEN Positional(argv, i + 2)
    ELSE <<argv[i]>> \o Positional(argv, i + 1)
PathsGiven == Len(input.argv) >= 2 /\ Len(Positional(input.argv, 1)) >= 2

\* where the feature records start in the file
RecordsStart ==
    8 + 4 + input.file.header_size
    + (IF input.file.header.index_node_size > 0 /\ input.file.header.features_count > 0
       THEN input.file.index_bytes ELSE 0)
RecordStart(k) == RecordOffset(input.file.features, RecordsStart, k)
\* record k cannot be framed: its length field or its payload passes the end
Broken(k) ==
    \/ RecordStart(k) + 4 > input.file.size
    \/ RecordStart(k) + 4 + input.file.features[k].size > input.file.size
BrokenRecords == {k \in 1..input.file.header.features_count : Broken(k)}
\* the first record that cannot be framed, 0 if every record can
TruncatedAt ==
    IF BrokenRecords = {} THEN 0
    ELSE CHOOSE k \in BrokenRecords : \A j \in BrokenRecords : k <= j

HeaderDamaged ==
    \/ input.file.size < 12
    \/ ~input.file.magic_ok
    \/ 12 + input.file.header_size > input.file.size

ColumnAbsent(name) ==
    \A i \in DOMAIN input.file.header.columns : input.file.header.columns[i].name # name

\* the row of the k-th feature record of the file, submitted k-th
ExpectedRow(k) ==
    write_csv_row(process_single_feature_task(
        TaskInputData(input.file.features[k], input.file.header,
                      CoordinateStride(input.file.header), k - 1)))

NotFailing(id) == id \notin input.failing
\* the first n submitted features whose result can be retrieved, in submission order
Delivered(n) == SelectSeq([i \in 1..n |-> i], NotFailing)
RowsOf(ids) == [j \in 1..Len(ids) |-> ExpectedRow(ids[j])]

\* C1: the data rows are, in submission order, the results of the submitted
\* features collected so far, whatever the number of workers and the order in
\* which the tasks finish: handles are kept in submission order, and when no
\* result retrieval fails the k-th data row is the k-th feature record's.
C1_RowOrderIsSubmissionOrder ==
    /\ \A i \in DOMAIN processing_futures_ : processing_futures_[i] = i
    /\ Rows = RowsOf(Delivered(collect_i))
    /\ (input.failing \cap (1..collect_i) = {} =>
            /\ Len(Rows) = collect_i
            /\ \A k \in 1..Len(Rows) : Rows[k] = ExpectedRow(k))

\* two workers, the first task to finish is not the first submitted, every row written
C1_Witness ==
    /\ Finished
    /\ Len(workers_) >= 2
    /\ input.failing = {}
    /\ Len(completion_order) >= 2 /\ completion_order[1] # 1
    /\ Len(Rows) = Len(completion_order)

\* C2: when a record cannot be framed (length field unreadable, or declared
\* length beyond the end), submission stops there: no record from it on is
\* ever submitted, and when process_features returns the rows of the records
\* before it are written, in order (those whose retrieval did not fail).
C2_TruncationStopsSubmission ==
    TruncatedAt > 0 =>
        /\ feature_submission_count_ < TruncatedAt
        /\ \A id \in DOMAIN futures : id < TruncatedAt
        /\ (Returned /\ ~HeaderDamaged =>
                /\ feature_submission_count_ = TruncatedAt - 1
                /\ Rows = RowsOf(Delivered(TruncatedAt - 1)))

\* the last record is cut short and the rows before it are all written
C2_Witness ==
    /\ Finished
    /\ TruncatedAt > 1
    /\ input.file.size < RecordStart(TruncatedAt) + 4 + input.file.features[TruncatedAt].size
    /\ input.file.size >= RecordStart(TruncatedAt) + 4
    /\ Len(Rows) = TruncatedAt - 1

\* C3 (as claimed): a run over a file with a record that cannot be framed
\* ends in failure: process_features returns false and the exit code is 1.
C3_TruncationExitsWithFailure ==
    (Finished /\ TruncatedAt > 0 /\ outcome \in {"true", "false"}) =>
        (outcome = "false" /\ exit_code = 1)

\* C4: a handle whose retrieval throws has its row skipped, the handles after
\* it are still collected and written in order, and process_features returns
\* false since fewer rows were written than features submitted.
C4_FailedRowIsSkipped ==
    /\ (pc = "collect_and_write_results" => Rows = RowsOf(Delivered(collect_i)))
    /\ (Returned /\ input.failing \cap (1..feature_submission_count_) # {} =>
            /\ collect_i = feature_submission_count_
            /\ Rows = RowsOf(Delivered(feature_submission_count_))
            /\ Len(Rows) < feature_submission_count_
            /\ features_written_count = Len(Rows)
            /\ outcome = "false")

\* the first handle throws, the two after it are written
C4_Witness ==
    /\ Finished
    /\ input.failing = {1}
    /\ feature_submission_count_ >= 3
    /\ Len(Rows) = feature_submission_count_ - 1
    /\ Rows[1] = ExpectedRow(2)
    /\ exit_code = 1

\* C5: a buffer under 12 bytes, wrong magic bytes, or 12 + header_size beyond
\* the buffer: process_features returns false, the output file is never
\* opened, no task is submitted, no header row and no data row is written.
C5_DamagedHeaderWritesNothing ==
    (HeaderDamaged /\ input.fault = "none") =>
        /\ outcome \in {"none", "false"}
        /\ (Finished /\ PathsGiven => outcome = "false")
        /\ ~output_file.opened
        /\ output_file.header_rows = 0 /\ Rows = <<>>
        /\ feature_submission_count_ = 0
        /\ tasks_ = <<>> /\ DOMAIN futures = {}

C5_Witness ==
    /\ Finished
    /\ ~input.file.magic_ok
    /\ input.file.size >= 12 + input.file.header_size
    /\ outcome = "false"

\* C6: a header geometry type other than Polygon and MultiPolygon:
\* process_features returns false, no task is submitted, no header row and
\* no data row is written.
C6_UnsupportedGeometryWritesNothing ==
    (input.file.header.geometry_type \notin {"Polygon", "MultiPolygon"}
     /\ input.fault = "none") =>
        /\ outcome \in {"none", "false"}
        /\ (Finished /\ PathsGiven => outcome = "false")
        /\ output_file.header_rows = 0 /\ Rows = <<>>
        /\ feature_submission_count_ = 0
        /\ tasks_ = <<>> /\ DOMAIN futures = {}

C6_Witness ==
    /\ Finished
    /\ input.file.header.geometry_type = "Point"
    /\ ~HeaderDamaged
    /\ output_file.opened
    /\ outcome = "false"
\* the 1-based place of a column in the header schema, 0 if it has none
ColumnPlace(name) ==
    IF ColumnAbsent(name) THEN 0
    ELSE CHOOSE i \in DOMAIN input.file.header.columns :
             /\ input.file.header.columns[i].name = name
             /\ \A j \in 1..(i - 1) : input.file.header.columns[j].name # name
\* nothing but the columns stands in the way of a complete run
PlainRun ==
    /\ input.fault = "none" /\ input.output_ok /\ PathsGiven /\ ~HeaderDamaged
    /\ input.file.header.geometry_type \in {"Polygon", "MultiPolygon"}
    /\ TruncatedAt = 0 /\ input.failing = {}
FallbackText(k) == uat_name_fallback_prefix_ \o ToDecimal(k)

\* C7: a named column missing from the schema does not fail the run: each
\* row written then has "Name_Unavailable_Index_k" (k the feature's 1-based
\* submission position) for a missing name, 0 for a missing natcode and an
\* empty county for a missing countyMn, every feature is still submitted and
\* written, and process_features returns true when nothing else goes wrong.
C7_MissingColumnsDegrade ==
    /\ \A j \in 1..Len(Rows) :
         LET k == Delivered(collect_i)[j]
         IN  /\ ColumnAbsent("name") => Rows[j].uat_name = FallbackText(k)
             /\ ColumnAbsent("natcode") => Rows[j].uat_code = <<48>>
             /\ ColumnAbsent("countyMn") => Rows[j].county_code_mn = <<>>
    /\ (Returned /\ PlainRun =>
            /\ feature_submission_count_ = input.file.header.features_count
            /\ Len(Rows) = input.file.header.features_count
            /\ outcome = "true")

\* none of the three columns is in the schema, every feature is written
C7_Witness ==
    /\ Finished
    /\ ColumnAbsent("name") /\ ColumnAbsent("natcode") /\ ColumnAbsent("countyMn")
    /\ Len(Rows) = input.file.header.features_count
    /\ Len(Rows) >= 2
    /\ Rows[2].uat_name = FallbackText(2)
    /\ exit_code = 0

\* the column lookups of feature k that meet the out-of-range pair first
Degraded(k, name) ==
    /\ input.file.features[k].corrupt_before > 0
    /\ ColumnPlace(name) >= input.file.features[k].corrupt_before
\* the column lookups of feature k that find their pair
Found(k, name) ==
    /\ ColumnPlace(name) > 0
    /\ \/ input.file.features[k].corrupt_before = 0
       \/ ColumnPlace(name) < input.file.features[k].corrupt_before

\* C8: a lookup that meets a column index outside the schema before its own
\* column gives the empty string (fallback name, code 0, empty county); the
\* feature is still submitted and written, and the lookups of every other
\* feature, and those of this feature that come before the bad pair, give
\* their values.
C8_CorruptIndexDegradesOneFeature ==
    /\ \A j \in 1..Len(Rows) :
         LET k == Delivered(collect_i)[j]
         IN  /\ Degraded(k, "name") => Rows[j].uat_name = FallbackText(k)
             /\ Degraded(k, "natcode") => Rows[j].uat_code = <<48>>
             /\ Degraded(k, "countyMn") => Rows[j].county_code_mn = <<>>
             /\ Found(k, "name") => Rows[j].uat_name = SampleName(k)
             /\ Found(k, "natcode") => Rows[j].uat_code = ToDecimal(10 * k)
             /\ Found(k, "countyMn") => Rows[j].county_code_mn = SampleCounty(k)
    /\ (Returned /\ PlainRun =>
            /\ feature_submission_count_ = input.file.header.features_count
            /\ Len(Rows) = input.file.header.features_count
            /\ outcome = "true")

\* the second feature has the bad pair after its name: its code and county
\* degrade, its name and the third feature's values are read
C8_Witness ==
    /\ Finished
    /\ Len(Rows) >= 3
    /\ input.file.features[2].corrupt_before = 2
    /\ ColumnPlace("name") = 1 /\ ColumnPlace("natcode") = 2 /\ ColumnPlace("countyMn") = 3
    /\ Rows[2].uat_name = SampleName(2)
    /\ Rows[2].uat_code = <<48>> /\ Rows[2].county_code_mn = <<>>
    /\ Rows[3].uat_code = ToDecimal(30) /\ Rows[3].county_code_mn = SampleCounty(3)
    /\ exit_code = 0

QueuedIds == {tasks_[i].id : i \in DOMAIN tasks_}
HeldIds == {workers_[w].task.id : w \in DOMAIN workers_} \ {0}
ExecutedIds == {completion_order[i] : i \in DOMAIN completion_order}

\* a task whose enqueue_task threw is nowhere: not queued, not held, not run
C10_RejectedNeverRuns ==
    /\ thrown \cap (QueuedIds \cup HeldIds \cup ExecutedIds \cup DOMAIN futures) = {}
    /\ \A i \in DOMAIN processing_futures_ :
         LET id == processing_futures_[i]
         IN  /\ id \in DOMAIN futures
             /\ futures[id].state = "ready" =>
                    futures[id].value = process_single_feature_task(PoolTaskData(id))

\* a call of enqueue_task with stop_ set throws and leaves tasks_ as it was;
\* one with stop_ clear appends exactly its task and creates its future
C10_EnqueueStep ==
    EnqueueCalls' = EnqueueCalls + 1 =>
        LET id == EnqueueCalls + 1
        IN  IF stop_
            THEN /\ id \in thrown'
                 /\ tasks_' = tasks_
                 /\ futures' = futures
            ELSE /\ id \notin thrown'
                 /\ Len(tasks_') = Len(tasks_) + 1
                 /\ SubSeq(tasks_', 1, Len(tasks_)) = tasks_
                 /\ tasks_'[Len(tasks_')].id = id
                 /\ id \in DOMAIN futures' /\ futures'[id].state = "pending"

\* C10: enqueue_task after stop_ is set throws and leaves the queue
\* unchanged, the rejected task is never queued and never executed;
\* enqueue_task before stop_ always queues the task and returns a handle
\* bound to that task.
C10_EnqueueAfterStopIsRejected ==
    [](C10_RejectedNeverRuns) /\ [][C10_EnqueueStep]_vars

\* a task was accepted and run, a later one was rejected after stop
C10_Witness ==
    /\ stop_
    /\ thrown # {}
    /\ ExecutedIds # {}
    /\ \A w \in DOMAIN workers_ : workers_[w].at = "exited"
\* a worker returns from worker_loop in this step
WorkerLeaves ==
    \E w \in DOMAIN workers_ : workers_[w].at # "exited" /\ workers_'[w].at = "exited"

\* C11: a worker leaves worker_loop only with stop_ set and the queue empty,
\* and every task that is queued when stop_ is set is eventually executed.
C11_QueuedWorkSurvivesStop ==
    /\ [][WorkerLeaves => stop_ /\ tasks_ = <<>>]_vars
    /\ \A id \in 1..MaxPoolTasks : (stop_ /\ id \in QueuedIds) ~> (id \in ExecutedIds)

\* C12: tasks_, queue_mutex_ and condition_ are not destroyed while a worker
\* is inside worker_loop, and the teardown is over only when every accepted
\* task has been executed.
C12_MembersOutliveWorkers ==
    /\ pool_members = "destroyed" => AllExited
    /\ pc = "joined" => DOMAIN futures \subseteq ExecutedIds
\* the tasks submitted from the buffer that have not finished
TasksInFlight == QueuedIds \cup HeldIds

\* C13: while a submitted task is queued or executing, fgb_buffer_ is alive
\* and unmodified, also when an exception leaves process_features during
\* submission and the processor is destroyed.
C13_BufferOutlivesTasks ==
    TasksInFlight # {} => fgb_buffer_.state = "loaded"
\* every accepted task is in exactly one place: queued, held by one worker,
\* or executed once; the queue holds the tasks in the order of their calls
C14_EachTaskInOnePlace ==
    /\ \A i, j \in DOMAIN completion_order :
         i # j => completion_order[i] # completion_order[j]
    /\ \A v, w \in DOMAIN workers_ :
         v # w /\ workers_[v].task.id # 0 => workers_[v].task.id # workers_[w].task.id
    /\ \A i, j \in DOMAIN tasks_ : i < j => tasks_[i].id < tasks_[j].id
    /\ QueuedIds \cap HeldIds = {}
    /\ QueuedIds \cap ExecutedIds = {}
    /\ HeldIds \cap ExecutedIds = {}
    /\ pool_members = "alive" =>
           DOMAIN futures = QueuedIds \cup HeldIds \cup ExecutedIds

\* a worker that takes a task takes the one enqueued first among those
\* queued: every task accepted before it has already been taken
C14_DequeueStep ==
    \A w \in DOMAIN workers_ :
        workers_[w].task.id = 0 /\ workers_'[w].task.id # 0 =>
            /\ workers_'[w].task.id \in QueuedIds
            /\ \A id \in QueuedIds : workers_'[w].task.id <= id
            /\ QueuedIds' = QueuedIds \ {workers_'[w].task.id}

\* C14: every task accepted by enqueue_task is dequeued by exactly one worker
\* and executed exactly once, never lost and never run twice, and tasks are
\* dequeued in the order of their enqueue_task calls, for any number of
\* workers and any interleaving of enqueue and worker steps.
C14_FifoExactlyOnce ==
    [](C14_EachTaskInOnePlace) /\ [][C14_DequeueStep]_vars

\* two workers, three tasks all executed, the second finished before the first
C14_Witness ==
    /\ Len(workers_) = 2
    /\ pool_members = "alive"
    /\ DOMAIN futures = 1..3
    /\ completion_order = <<2, 1, 3>>
\* ---- the vocabulary of the claims on boxes and geometries
SetMin(S) == CHOOSE m \in S : \A v \in S : m <= v
SetMax(S) == CHOOSE m \in S : \A v \in S : v <= m
XsOf(points) == {points[i][1] : i \in DOMAIN points}
YsOf(points) == {points[i][2] : i \in DOMAIN points}

RECURSIVE ApplyAll(_, _)
\* the box after update was called with each point of the sequence in turn
ApplyAll(bb, points) ==
    IF points = <<>> THEN bb
    ELSE ApplyAll(update(bb, points[1][1], points[1][2]), Tail(points))

\* the box is valid and its extent is exactly the extent of the points
IsExtentOf(bb, points) ==
    /\ bb.is_valid
    /\ bb.min_x = SetMin(XsOf(points)) /\ bb.max_x = SetMax(XsOf(points))
    /\ bb.min_y = SetMin(YsOf(points)) /\ bb.max_y = SetMax(YsOf(points))

RECURSIVE PointsOf(_, _)
\* the points of a coordinate array: X and Y lead each group of stride values
PointsOf(xy, stride) ==
    IF Len(xy) < 2 THEN <<>>
    ELSE <<(<<xy[1], xy[2]>>)>>
         \o PointsOf(IF Len(xy) > stride THEN SubSeq(xy, stride + 1, Len(xy)) ELSE <<>>, stride)

OwnPoints(g, stride) == IF g.has_xy THEN PointsOf(g.xy, stride) ELSE <<>>

RECURSIVE RingPoints(_, _)
RingPoints(rings, stride) ==
    IF rings = <<>> THEN <<>>
    ELSE (IF rings[1].null THEN <<>> ELSE OwnPoints(rings[1], stride))
         \o RingPoints(Tail(rings), stride)

\* the points of a polygon: those of its rings, or its own when it has no ring
PolygonPoints(g, stride) ==
    IF g.null THEN <<>>
    ELSE IF g.has_parts /\ g.parts # <<>> THEN RingPoints(g.parts, stride)
    ELSE OwnPoints(g, stride)

RECURSIVE ChildrenPoints(_, _)
ChildrenPoints(polys, stride) ==
    IF polys = <<>> THEN <<>>
    ELSE PolygonPoints(polys[1], stride) \o ChildrenPoints(Tail(polys), stride)

\* C15: from a fresh box, after update was applied to every point of a
\* non-empty sequence the box is valid and min_x, max_x, min_y, max_y are the
\* minimum and maximum of the x and of the y applied, for negative values too;
\* after the first update the extent is that point.
C15_BoxIsExtentOfPoints ==
    geo.mode = "box" =>
        /\ geo.applied = <<>> => ~geo.box.is_valid
        /\ geo.applied # <<>> => IsExtentOf(geo.box, geo.applied)
        /\ Len(geo.applied) = 1 =>
               /\ geo.box.min_x = geo.applied[1][1] /\ geo.box.max_x = geo.applied[1][1]
               /\ geo.box.min_y = geo.applied[1][2] /\ geo.box.max_y = geo.applied[1][2]

\* C16: update with a point already applied leaves the five fields as they
\* are, and the points applied give the same box in every order.
C16_UpdateIdempotentAndOrderFree ==
    geo.mode = "box" =>
        /\ \A i \in DOMAIN geo.applied :
             update(geo.box, geo.applied[i][1], geo.applied[i][2]) = geo.box
        /\ \A perm \in Permutations(DOMAIN geo.applied) :
             ApplyAll(InvalidBox, [i \in DOMAIN geo.applied |-> geo.applied[perm[i]]])
                 = geo.box

\* three different points, the largest x applied first and the smallest last
C16_Witness ==
    /\ geo.mode = "box"
    /\ Len(geo.applied) = MaxPoints
    /\ geo.applied[1][1] > geo.applied[2][1]
    /\ geo.applied[2][1] > geo.applied[3][1]
    /\ geo.applied[1][2] < geo.applied[3][2]

\* C17: for a MultiPolygon calculate_for_geometry returns the extent of all
\* coordinates of all rings of all child polygons, whatever the coordinate
\* values and the number of children.
C17_MultiPolygonIsUnionOfChildren ==
    geo.mode = "geometry" /\ geo.done /\ geo.input.type = "MultiPolygon" =>
        LET points == IF geo.input.geometry.has_parts
                      THEN ChildrenPoints(geo.input.geometry.parts, geo.input.stride)
                      ELSE <<>>
        IN  IF points = <<>> THEN ~geo.result.is_valid
            ELSE IsExtentOf(geo.result, points)

\* C18: a Polygon whose parts list is absent or empty and that has
\* coordinates of its own gets the box of those coordinates; a Polygon with
\* ring parts gets the box of the coordinates of every ring.
C18_PolygonWithoutParts ==
    geo.mode = "geometry" /\ geo.done /\ geo.input.type = "Polygon" =>
        geo.result = ApplyAll(InvalidBox, PolygonPoints(geo.input.geometry, geo.input.stride))
RECURSIVE FieldsOf(_)
\* the fields of a line: what stands between its delimiters, <<>> for nothing
FieldsOf(line) ==
    IF \A i \in DOMAIN line : line[i].kind # "delimiter"
    THEN <<line>>
    ELSE LET d == CHOOSE i \in DOMAIN line :
                      /\ line[i].kind = "delimiter"
                      /\ \A j \in 1..(i - 1) : line[j].kind # "delimiter"
         IN  <<SubSeq(line, 1, d - 1)>> \o FieldsOf(SubSeq(line, d + 1, Len(line)))

\* feature k of the file has no geometry table or one without coordinates
NoCoordinates(k) ==
    LET g == input.file.features[k].geometry
    IN  \/ g.null
        \/ (IF g.type = "MultiPolygon"
            THEN ChildrenPoints(g.parts, default_coordinate_stride_)
            ELSE PolygonPoints(g, default_coordinate_stride_)) = <<>>

\* C19: every submitted feature whose task completes gives one data row of
\* exactly 8 fields; when its geometry is absent or has no coordinates the
\* four coordinate fields and the area field are empty, and the row counts
\* as written.
C19_EveryRowHasEightFields ==
    /\ Len(Rows) = Len(Delivered(collect_i))
    /\ features_written_count = Len(Rows)
    /\ \A j \in 1..Len(Rows) :
         LET k == Delivered(collect_i)[j]
             fields == FieldsOf(Rows[j].line)
         IN  /\ Len(fields) = 8
             /\ fields[1] # <<>> /\ fields[2] # <<>>
             /\ NoCoordinates(k) => \A f \in 4..8 : fields[f] = <<>>
             /\ ~NoCoordinates(k) => \A f \in 4..8 : fields[f] # <<>>

\* the first feature has no geometry table, the second an empty one, the
\* third a ring: three rows, the run succeeds
C19_Witness ==
    /\ Finished
    /\ Len(Rows) = 3
    /\ input.file.features[1].geometry.null
    /\ ~input.file.features[2].geometry.null /\ NoCoordinates(2)
    /\ FieldsOf(Rows[1].line)[8] = <<>>
    /\ FieldsOf(Rows[2].line)[4] = <<>>
    /\ FieldsOf(Rows[3].line)[4] # <<>>
    /\ exit_code = 0
\* C20: with N >= 1 workers scheduled fairly every enqueued task is
\* eventually executed and its handle made ready (as long as the pool is not
\* torn down first), so collect_and_write_results, blocking on each handle in
\* turn, terminates: no deadlock and no wake-up lost between notify_one and
\* the wait of worker_loop.
C20_CollectionTerminates ==
    /\ \A id \in 1..MaxFeatures :
         (id \in DOMAIN futures) ~>
             (stop_ \/ (id \in DOMAIN futures /\ futures[id].state # "pending"))
    /\ (pc = "collect_and_write_results") ~> (pc = "destroy")

\* two workers, one of them back in condition_.wait, every task executed and
\* every handle collected
C20_Witness ==
    /\ pc = "destroy"
    /\ outcome = "true"
    /\ Len(workers_) = 2
    /\ \E w \in DOMAIN workers_ : workers_[w].at = "sleeping"
    /\ features_written_count = MaxFeatures
    /\ ExecutedIds = 1..MaxFeatures

\* ---- the vocabulary of the claims on the property scan
Scanning == scan.mode = "scan"
BlobSize == Len(scan.blob)
InsideBlob(r) == r.o >= 0 /\ r.w >= 0 /\ r.o + r.w <= BlobSize
\* the 4 bytes at off are a length prefix whose value fits behind it
PrefixFits(off) ==
    /\ BlobSize - off >= 4
    /\ Leq32(Read32(scan.blob, off), BlobSize - off - 4)
PrefixedBytes(off) ==
    SubSeq(scan.blob, off + 5, off + 4 + Value32(Read32(scan.blob, off)))

\* C21: while a property blob of size B is scanned the cursor stays within
\* 0..B and every read (column index, length prefix, scalar, string bytes)
\* at offset o of width w has o + w <= B, for every blob and schema tried,
\* truncated values and oversized length prefixes included.
C21_ScanStaysInsideBlob ==
    Scanning =>
        /\ scan.cursor >= 0 /\ scan.cursor <= BlobSize
        /\ \A r \in scan.reads : InsideBlob(r)

\* a String value whose length prefix is 0xFFFFFFFF has been stepped over
C21_Witness ==
    /\ Scanning
    /\ scan.skipped # <<>>
    /\ scan.skipped[1].type = "String"
    /\ Rd(scan.skipped[1].off, 4) \in scan.reads
    /\ Read32(scan.blob, scan.skipped[1].off) = [lo |-> Half - 1, hi |-> Half - 1]
    /\ BlobSize = MaxBlob

\* ---- C27, C29, C30: the widths and values of the scan
LengthPrefixedTypes == {"Json", "DateTime", "Binary"}
Skipped == scan.skipped[1]
Requested == scan.found[1]

\* C27: a value of a Json, DateTime or Binary column follows the String
\* convention both ways: stepping over it advances the cursor by 4 + len, and
\* when it is the requested column the len bytes behind the prefix are returned.
C27_LengthPrefixedTypesReadAsString ==
    Scanning =>
        /\ scan.skipped # <<>> /\ Skipped.type \in LengthPrefixedTypes /\ PrefixFits(Skipped.off)
             => Skipped.width = 4 + Value32(Read32(scan.blob, Skipped.off))
        /\ scan.found # <<>> /\ Requested.type \in LengthPrefixedTypes /\ PrefixFits(Requested.off)
             => scan.result = PrefixedBytes(Requested.off)

\* C29: stepping over a String value with length prefix len and r bytes
\* remaining gives 4 + len when 4 + len <= r and r otherwise, for every len,
\* so the cursor is then at the next pair or at the end of the blob.
C29_StringSkipWidth ==
    Scanning /\ scan.skipped # <<>> /\ Skipped.type = "String" =>
        LET r == BlobSize - Skipped.off
        IN  /\ Skipped.width = IF r >= 4 /\ PrefixFits(Skipped.off)
                               THEN 4 + Value32(Read32(scan.blob, Skipped.off))
                               ELSE r
            /\ scan.status = "loop" =>
                   scan.cursor = (IF r >= 4 /\ PrefixFits(Skipped.off)
                                  THEN Skipped.off + 4 + Value32(Read32(scan.blob, Skipped.off))
                                  ELSE BlobSize)

\* C30 as stated: at most blob_size / 2 iterations
C30_AtMostHalfSizeIterations ==
    Scanning => 2 * scan.iterations <= BlobSize

\* C30: the scan terminates: an iteration returns, breaks, or moves the cursor
\* forward by at least 2 bytes (also when the skip width is 0), the cursor
\* never passes the end, and so every iteration but the last starts at least
\* 2 bytes after the one before: n iterations need 2 * (n - 1) < blob_size.
C30_ScanTerminates ==
    /\ [](Scanning => /\ scan.cursor <= BlobSize
                      /\ scan.iterations > 0 => 2 * (scan.iterations - 1) < BlobSize)
    /\ [][Scanning /\ scan'.iterations = scan.iterations + 1 =>
            \/ scan'.status \in {"returned", "broke"}
            \/ scan'.cursor >= scan.cursor + 2]_vars

\* a second iteration was reached and its value, at the end of the blob, was
\* stepped over with width 0
C30_Witness ==
    /\ Scanning
    /\ scan.iterations = 2
    /\ scan.status = "ended"
    /\ scan.skipped # <<>> /\ Skipped.width = 0
    /\ scan.cursor = BlobSize

\* ---- C28: the value of a natcode text, stated on the text alone
Trimmed(s) ==
    IF NonSpaces(s) = {} THEN <<>>
    ELSE SubSeq(s, SetMin(NonSpaces(s)), SetMax(NonSpaces(s)))
AllDigits(t) == t # <<>> /\ \A i \in DOMAIN t : IsDigit(t[i])
RECURSIVE DecimalValue(_)
\* the number a text of at most 9 digits denotes
DecimalValue(t) ==
    IF t = <<>> THEN 0 ELSE 10 * DecimalValue(SubSeq(t, 1, Len(t) - 1)) + (t[Len(t)] - 48)
\* the texts of 10 digits and more that were tried, with the code they stand for
LongTexts ==
    {<<<<52, 50, 57, 52, 57, 54, 55, 50, 57, 53>>, UInt32MaxText>>,
     <<<<52, 50, 57, 52, 57, 54, 55, 50, 57, 54>>, ZeroText>>,
     <<<<48, 48, 52, 50, 57, 52, 57, 54, 55, 50, 57, 53>>, UInt32MaxText>>,
     <<<<Space, 52, 50, 57, 52, 57, 54, 55, 50, 57, 53, 10>>, UInt32MaxText>>,
     <<<<52, 50, 57, 52, 57, 54, 55, 50, 57, 53, 48>>, ZeroText>>,
     <<<<57, 57, 57, 57, 57, 57, 57, 57, 57, 57>>, ZeroText>>}
ExpectedCode(text) ==
    IF \E e \in LongTexts : e[1] = text
    THEN (CHOOSE e \in LongTexts : e[1] = text)[2]
    ELSE IF AllDigits(Trimmed(text)) THEN ToDecimal(DecimalValue(Trimmed(text)))
    ELSE ZeroText

FrameReads ==
    IF ~LengthReadable(current_offset, fgb_buffer_.size) THEN {}
    ELSE {Rd(current_offset, 4)}
         \cup (IF RecordFits(current_offset, RecordAt(input.file, loop_i).size,
                             fgb_buffer_.size)
               THEN {Rd(current_offset, 4 + RecordAt(input.file, loop_i).size)}
               ELSE {})

\* C22: a record length is read only when cursor + 4 <= buffer size and a
\* feature view is taken only when cursor + 4 + length <= buffer size, also
\* when the index skip has put the cursor behind the end of the buffer; the
\* loop body runs at most features_count times.
C22_FramingStaysInsideBuffer ==
    /\ pc \in {"submit_feature_tasks", "notify_one"} =>
          /\ loop_i <= input.file.header.features_count
          /\ feature_submission_count_ <= loop_i + 1
    /\ feature_submission_count_ <= input.file.header.features_count
    /\ pc = "submit_feature_tasks" /\ loop_i < input.file.header.features_count =>
          \A r \in FrameReads : r.o >= 0 /\ r.o + r.w <= fgb_buffer_.size
    /\ pc = "notify_one" => current_offset <= fgb_buffer_.size

\* the header announces an index the file does not hold: the cursor starts
\* behind the end of the buffer and the first iteration returns without a read
C22_Witness ==
    /\ pc = "collect_and_write_results"
    /\ submit_returned = "false"
    /\ current_offset > fgb_buffer_.size
    /\ feature_submission_count_ = 0
    /\ loop_i = 0
    /\ input.file.header.features_count = MaxFeatures

\* ---- C23: the indexes update_bbox_from_coordinates reads
\* the start indexes of the groups of an array of n doubles that hold a pair
GroupStarts(n, stride) == {i \in 0..(n - 1) : i % stride = 0 /\ i + 1 < n}

\* C23: over n doubles with stride s >= 2 only the index pairs (i, i + 1)
\* with i a multiple of s and i + 1 < n are read, never an index >= n, also
\* for n odd or not a multiple of s; only the first two values of each group
\* are used; the loop ends after at most one round per group.
C23_CoordinateScanStaysInsideArray ==
    geo.mode = "coords" =>
        LET n == Len(geo.xy)
            starts == GroupStarts(n, geo.stride)
        IN  /\ geo.stride >= 2
            /\ \A r \in geo.reads : r >= 0 /\ r < n
            /\ geo.reads = UNION {{i, i + 1} : i \in {g \in starts : g < geo.i}}
            /\ geo.i = geo.rounds * geo.stride
            /\ geo.rounds <= Cardinality(starts)
            /\ geo.status = "done" =>
                  /\ geo.has_xy => geo.reads = UNION {{i, i + 1} : i \in starts}
                  /\ geo.box = ApplyAll(InvalidBox,
                                        IF geo.has_xy THEN PointsOf(geo.xy, geo.stride) ELSE <<>>)

\* an array of 7 doubles read with stride 3: the pairs at 0 and 3 are read,
\* the lone value at 6 is not
C23_Witness ==
    /\ geo.mode = "coords" /\ geo.status = "done"
    /\ Len(geo.xy) = 7 /\ geo.stride = 3
    /\ geo.reads = {0, 1, 3, 4}
    /\ geo.box.max_x = 40 /\ geo.box.max_y = 50

\* C24: in every state reached by update calls on a bounding box, is_valid
\* implies min_x <= max_x and min_y <= max_y; an update never raises a
\* minimum, never lowers a maximum and never clears is_valid.
C24_BoxStaysOrdered ==
    /\ [](geo.mode = "box" /\ geo.box.is_valid =>
              geo.box.min_x <= geo.box.max_x /\ geo.box.min_y <= geo.box.max_y)
    /\ [][geo.mode = "box" =>
              /\ geo'.box.min_x <= geo.box.min_x /\ geo'.box.min_y <= geo.box.min_y
              /\ geo'.box.max_x >= geo.box.max_x /\ geo'.box.max_y >= geo.box.max_y
              /\ geo'.box.is_valid]_vars

\* a second update with a point left of and below the first one
C24_Witness ==
    /\ geo.mode = "box"
    /\ Len(geo.applied) = 2
    /\ geo.applied[1] = <<2, 2>> /\ geo.applied[2] = <<-2, -1>>
    /\ geo.box.min_x = -2 /\ geo.box.min_y = -1
    /\ geo.box.max_x = 2 /\ geo.box.max_y = 2

\* ---- C26: a task that fails
\* worker w ends the execution of its task in this step
EndsTask(w) == workers_[w].at = "run" /\ workers_'[w].at # "run"
FailedBefore(id) ==
    \E j \in 1..(id - 1) : j \in DOMAIN futures /\ futures[j].state = "exception"

\* C26: a task whose execution fails does not end its worker: all N workers
\* are inside worker_loop until stop is requested, the failure shows in that
\* task's own handle and in no other, and a task queued behind a failed one
\* is still executed and gets its own result (unless the pool is stopped).
C26_FailedTaskLeavesWorkerAlive ==
    /\ [](~stop_ => /\ Len(workers_) = input.num_threads
                    /\ \A w \in DOMAIN workers_ :
                         workers_[w].at \in {"lock", "sleeping", "run"})
    /\ [][\A w \in DOMAIN workers_ :
            EndsTask(w) =>
                LET t == workers_[w].task
                IN  /\ workers_'[w].at = "lock"
                    /\ futures'[t.id].state = IF t.throws THEN "exception" ELSE "ready"
                    /\ \A j \in DOMAIN futures \ {t.id} : futures'[j] = futures[j]]_vars
    /\ \A id \in 1..MaxPoolTasks :
         (pc = "client" /\ id \in QueuedIds /\ FailedBefore(id))
            ~> (stop_ \/ (id \in DOMAIN futures
                          /\ futures[id].state \in {"ready", "exception"}))

\* one worker ran a failing task, then the task queued behind it
C26_Witness ==
    /\ ~stop_
    /\ Len(workers_) = 1
    /\ workers_[1].at \in {"lock", "sleeping"}
    /\ completion_order = <<1, 2>>
    /\ futures[1].state = "exception"
    /\ futures[2].state = "ready"

\* ---- C25: the order of the phases of process_features
\* the phase of process_features the main thread is in; 0 before the call,
\* 6 after it
Phase ==
    CASE pc = "run_application" -> 0
      [] pc = "initialize_file_buffer" -> 1
      [] pc = "parse_and_validate_header" -> 2
      [] pc \in {"resolve_columns", "open_output", "check_geometry_type"} -> 3
      [] pc \in {"submit_feature_tasks", "notify_one"} -> 4
      [] pc = "collect_and_write_results" -> 5
      [] OTHER -> 6
\* the file was loaded and its header is one the code accepts: the magic
\* bytes, and the size-prefixed header inside the buffer
HeaderAccepted ==
    /\ input.fault \notin {"open_fail", "foreign"}
    /\ input.file.size >= min_fgb_file_size_
    /\ input.file.magic_ok
    /\ magic_size + 4 + input.file.header_size <= input.file.size
ColumnsResolved ==
    /\ uat_name_column_index_ =
           find_property_index_by_name(input.file.header, expected_uat_name_column_)
    /\ uat_code_column_index_ =
           find_property_index_by_name(input.file.header, expected_uat_code_column_)
    /\ county_mn_column_index_ =
           find_property_index_by_name(input.file.header, expected_county_mn_column_)
SubmissionLoopEnded == submit_returned \in {"true", "false"}

\* C25: the phases of a run of process_features come in the order buffer
\* load, header validation, column resolution, feature submission, result
\* collection, one step forward at a time and never back; tasks exist only
\* from the submission phase on, after the header was accepted and the three
\* columns resolved; the header row is written once, in the step that enters
\* submission, while the file has no data row; data rows are written only in
\* the collection phase, after the submission loop has ended.
C25_PhasesInOrder ==
    /\ [][/\ Phase' >= Phase
          /\ Phase < 5 /\ Phase' < 6 => Phase' <= Phase + 1
          /\ Phase = 0 => Phase' \in {0, 1, 6}
          /\ DOMAIN futures' # DOMAIN futures \/ thrown' # thrown =>
                 /\ Phase = 4 /\ HeaderAccepted /\ ColumnsResolved
                 /\ output_file.header_rows = 1
          /\ output_file'.header_rows # output_file.header_rows =>
                 /\ Phase = 3 /\ Phase' = 4
                 /\ output_file.header_rows = 0 /\ output_file'.header_rows = 1
                 /\ Rows = <<>>
          /\ Rows' # Rows =>
                 /\ Phase = 5 /\ SubmissionLoopEnded
                 /\ output_file.header_rows = 1]_vars
    /\ [](/\ EnqueueCalls > 0 => Phase >= 4 /\ HeaderAccepted /\ ColumnsResolved
          /\ Phase \in {4, 5} => output_file.header_rows = 1 /\ HeaderAccepted
          /\ Phase = 4 => ~SubmissionLoopEnded /\ Rows = <<>>
          /\ Phase = 5 => SubmissionLoopEnded
          /\ output_file.header_rows <= 1
          /\ Rows # <<>> => output_file.header_rows = 1 /\ SubmissionLoopEnded)

\* a run that went through every phase and wrote the header row and one row
\* for each of MaxFeatures features
C25_Witness ==
    /\ Finished
    /\ outcome = "true"
    /\ output_file.header_rows = 1
    /\ Len(Rows) = MaxFeatures
    /\ HeaderAccepted
====
